---------------------------- MODULE Spec2Model ----------------------------
(***************************************************************************)
(* Model of the unqork-audit-logs fetch-and-cache core:                    *)
(*   - the window planner        (fetcher.generate_windows),               *)
(*   - the local store           (cache.LogCache over one SQLite file),    *)
(*   - the fetch orchestrator    (fetcher.fetch_audit_logs).               *)
(*                                                                         *)
(* The specifications share the variables:                                  *)
(*   SpecWindows  generate_windows applied to bounded inputs;              *)
(*   SpecStore    one LogCache driven statement by statement, with         *)
(*                process interruption and failing calls;                  *)
(*   Spec         fetch_audit_logs runs over the store;                    *)
(*   SpecNet      one fetch_audit_logs run at the grain of the event loop: *)
(*                the client's requests, the token manager and the         *)
(*                download tasks (client.py, auth.py);                     *)
(*   SpecClient   concurrent client calls on one TokenManager;             *)
(*   SpecResume   runs that are interrupted and started again over the     *)
(*                same range and the same upstream files;                  *)
(*   SpecObserve  runs with callbacks set on the FetchProgress;            *)
(*   SpecParser   the functions of parser.py applied to bounded inputs;    *)
(*   SpecInsert   store_window on batches holding records whose insert     *)
(*                raises a storage error;                                  *)
(*   SpecQuery    the queries of LogCache applied to bounded stores;       *)
(*   SpecFields   _safe_get and _extract_fields applied to decoded values; *)
(*   SpecRetry    runs started again over the same range after windows     *)
(*                failed;                                                  *)
(*   SpecRerun    event-loop runs over a range that earlier runs fetched;  *)
(*   SpecExport   files parsed, stored and exported as JSON;               *)
(*   SpecGather   one download_log_files call, its tasks in every order.   *)
(***************************************************************************)
EXTENDS Integers, Sequences, FiniteSets, TLC

VARIABLES
    gw_pc,      \* window planner: "idle" | "returned"
    gw_start,   \* window planner: argument start (ticks since the epoch)
    gw_end,     \* window planner: argument end
    gw_out,     \* window planner: the returned list of (start_str, end_str)
    db,         \* store: the committed content of the SQLite file
    tx,         \* store: the content as the open connection sees it
    in_tx,      \* store: the connection has an open (implicit) transaction
    st_pc,      \* store: position inside the LogCache method being executed
    sw,         \* store: the frame of the store_window call in progress
    calls,      \* store: number of LogCache operations started so far
    f_pc,       \* fetch: position inside fetch_audit_logs
    f_windows,  \* fetch: windows = generate_windows(start, end)
    f_idx,      \* fetch: index of the window the for loop is at
    f_data,     \* fetch: locations, then file_data_list, of this window
    progress,   \* fetch: the FetchProgress of the run
    outcome,    \* history: how each window of the run ended
    requests,   \* history: API requests and store_window calls of the run
    runs,       \* fetch: number of runs started so far
    now,        \* network: time.time(), in seconds
    tm,         \* network: the TokenManager (_access_token, _expires_at)
    loc,        \* network: the fetch_log_locations call of the current window
    tasks,      \* network: the _download_one tasks on the event loop
    upstream,   \* API: the files it holds for each window of the range
    callbacks,  \* fetch: how each callback set on FetchProgress behaves
    db0,        \* history: the content of the file when the run started
    call_pc,    \* function call: "idle" | the function that has returned
    call_args,  \* function call: the arguments
    call_ret    \* function call: the value returned or the exception raised

gwVars == <<gw_pc, gw_start, gw_end, gw_out>>

storeVars == <<db, tx, in_tx, st_pc, sw, calls>>

fetchVars == <<f_pc, f_windows, f_idx, f_data, progress, outcome, requests, runs>>

netVars == <<now, tm, loc, tasks>>

auxVars == <<callbacks, db0, call_pc, call_args, call_ret>>

vars == <<gw_pc, gw_start, gw_end, gw_out, db, tx, in_tx, st_pc, sw, calls,
          f_pc, f_windows, f_idx, f_data, progress, outcome, requests, runs,
          now, tm, loc, tasks, upstream, callbacks, db0, call_pc, call_args,
          call_ret>>

-----------------------------------------------------------------------------
(* Bounds of the model *)

\* datetime resolution: ticks per second (a datetime carries sub-second
\* digits that strftime drops)
SubSecond == 2

\* the ranges handed to the planner start and end within this many hours
MaxHours == 3

\* longest batch of parsed entries handed to store_window
MaxBatch == 2

\* number of LogCache operations (store_window, clear) in one behaviour of
\* SpecStore
MaxCalls == 3

\* number of fetch_audit_logs runs in one behaviour of Spec
MaxRuns == 2

\* the clock of SpecNet runs from 0 to MaxTime seconds
MaxTime == 1

\* settings.max_concurrent_downloads of the run SpecNet follows
max_concurrent_downloads == 1

\* settings.token_refresh_buffer_seconds of the run SpecNet follows
token_refresh_buffer_seconds == 1

\* longest text, in lines, handed to the parser in SpecParser
MaxLines == 2

\* longest list of files handed to parse_log_files in SpecParser
MaxFiles == 2

\* most records in the store the queries of SpecQuery run on
MaxRows == 2

-----------------------------------------------------------------------------
(* Time and the window planner: fetcher.py *)

\* timedelta(hours=1), in seconds
HourSeconds == 3600

HourTicks == HourSeconds * SubSecond

Min(a, b) == IF a < b THEN a ELSE b

\* datetime.strftime(DATETIME_FORMAT): the text "%Y-%m-%dT%H:%M:%S.000Z" of a
\* UTC datetime, identified by its whole second; the sub-second part is
\* replaced by the literal ".000".
Format(t) == t \div SubSecond

\* the instant a formatted boundary denotes
Instant(s) == s * SubSecond

\* the boundaries the model hands to the planner: around every hour mark,
\* a sub-second step, one second, half an hour and the last second
Offsets == {0, 1, SubSecond, HourTicks \div 2, HourTicks - SubSecond}

TimePoints == {h * HourTicks + o : h \in 0..(MaxHours - 1), o \in Offsets}
                  \cup {MaxHours * HourTicks}

WindowEndNoClamp(current, end) == current + HourTicks

\* window_end = min(current + timedelta(hours=1), end)
WindowEnd(current, end) == Min(current + HourTicks, end)

RECURSIVE WindowsFrom(_, _)
\* the while loop of generate_windows
WindowsFrom(current, end) ==
    IF current < end
    THEN <<<<Format(current), Format(WindowEnd(current, end))>>>>
             \o WindowsFrom(WindowEnd(current, end), end)
    ELSE <<>>

generate_windows_do_while(start, end) ==
    <<<<Format(start), Format(WindowEnd(start, end))>>>>
        \o WindowsFrom(WindowEnd(start, end), end)

generate_windows(start, end) == WindowsFrom(start, end)

-----------------------------------------------------------------------------
(* The local store: cache.py *)

\* The raw_json strings the model stores.  What the code does with a payload
\* depends on whether json.loads accepts it and whether the decoded value is
\* a JSON object.
Objects == {"{\"a\":1}", "{\"b\":2}"}

\* an object whose "date" is a mapping: sqlite3 cannot bind the value, and
\* the insert raises sqlite3.Error
Unbindable == "{\"date\":{}}"

Payloads == Objects \cup {"not json", "[1]"}

\* json.loads(raw) succeeds
IsValidJson(raw) == raw # "not json"

\* the decoded value is a dict, so that raw.get(...) of _extract_fields works
IsJsonObject(raw) == raw \in Objects \cup {Unbindable}

InsertAlwaysBinds(raw) == FALSE

\* conn.execute("INSERT OR IGNORE ...") raises sqlite3.Error
InsertFails(raw) == raw = Unbindable

\* hashlib.sha256(raw_json).hexdigest()[:16]: a function of the payload text
\* alone; the truncated digest is taken to be collision-free on Payloads.
entry_id(raw) == <<"sha256", raw>>

\* the windows the store is driven with: the two hours of one range
StoreWindows == {generate_windows(0, 2 * HourTicks)[i] : i \in 1..2}

\* the batches handed to store_window
Batches == UNION {[1..n -> Payloads] : n \in 0..MaxBatch}

Range(f) == {f[x] : x \in DOMAIN f}

\* the file counts a caller passes with a batch (fetcher.py:140, 172-174):
\* no file has no entries
FileCounts(entries) == IF entries = <<>> THEN {0, 1} ELSE {1}

\* both tables empty: the state SCHEMA_SQL creates
EmptyDb == [records |-> <<>>, ledger |-> <<>>]

\* a function extended or overwritten at one key
Put(f, k, v) == [x \in (DOMAIN f) \cup {k} |-> IF x = k THEN v ELSE f[x]]

ExecInsertNothing(records, raw, window_start) ==
    [records |-> records, changes |-> 0]

ExecInsertOrReplace(records, raw, window_start) ==
    [records |-> Put(records, entry_id(raw),
                     [raw_json |-> raw, window_start |-> window_start]),
     changes |-> 1]

ExecInsertPerWindow(records, raw, window_start) ==
    IF <<entry_id(raw), window_start>> \in DOMAIN records
    THEN [records |-> records, changes |-> 0]
    ELSE [records |-> Put(records, <<entry_id(raw), window_start>>,
                          [raw_json |-> raw, window_start |-> window_start]),
          changes |-> 1]

ExecInsertReattribute(records, raw, window_start) ==
    [records |-> Put(records, entry_id(raw),
                     [raw_json |-> raw, window_start |-> window_start]),
     changes |-> IF entry_id(raw) \in DOMAIN records THEN 0 ELSE 1]

\* INSERT OR IGNORE INTO log_entries ... followed by SELECT changes()
ExecInsert(records, raw, window_start) ==
    IF entry_id(raw) \in DOMAIN records
    THEN [records |-> records, changes |-> 0]
    ELSE [records |-> Put(records, entry_id(raw),
                          [raw_json |-> raw, window_start |-> window_start]),
          changes |-> 1]

CountEveryInsert(inserted, changes) == inserted + 1

\* if conn.execute("SELECT changes()").fetchone()[0] > 0: inserted += 1
CountInserted(inserted, changes) ==
    IF changes > 0 THEN inserted + 1 ELSE inserted

\* One iteration of the for loop of store_window over the frame f.  The
\* frame keeps, besides the code's locals, `kept`: the identifiers of the
\* entries processed so far that the loop did not skip (history only).
\* raised = TRUE: the iteration ended in an exception the loop does not catch
\* (AttributeError of _extract_fields on a payload that is no JSON object).
\* An insert that raises sqlite3.Error is logged and the loop goes on.
LoopEntry(records, f) ==
    LET raw == f.entries[f.i] IN
    IF ~IsValidJson(raw)
    THEN [records |-> records, raised |-> FALSE,
          frame |-> [f EXCEPT !.i = f.i + 1]]
    ELSE IF ~IsJsonObject(raw)
    THEN [records |-> records, raised |-> TRUE, frame |-> f]
    ELSE IF InsertFails(raw)
    THEN [records |-> records, raised |-> FALSE,
          frame |-> [f EXCEPT !.i = f.i + 1]]
    ELSE LET r == ExecInsert(records, raw, f.window[1]) IN
         [records |-> r.records, raised |-> FALSE,
          frame |-> [f EXCEPT !.i = f.i + 1,
                              !.inserted = CountInserted(f.inserted, r.changes),
                              !.kept = f.kept \cup {entry_id(raw)}]]

ReplaceWindowIgnore(ledger, window, file_count, entry_count, kept) ==
    IF window \in DOMAIN ledger
    THEN [ledger EXCEPT ![window].kept = @ \cup kept]
    ELSE Put(ledger, window,
             [file_count |-> file_count, entry_count |-> entry_count,
              kept |-> kept])

\* INSERT OR REPLACE INTO fetched_windows ...; `kept` is history, not a
\* column: the identifiers of the entries, of every batch stored for this
\* window since the row first appeared, that store_window did not skip.
\* fetched_at is not modelled.
ReplaceWindow(ledger, window, file_count, entry_count, kept) ==
    Put(ledger, window,
        [file_count |-> file_count,
         entry_count |-> entry_count,
         kept |-> kept \cup (IF window \in DOMAIN ledger
                             THEN ledger[window].kept ELSE {})])

is_window_fetched_any(view, window) == DOMAIN view.ledger # {}

is_window_fetched_by_start(view, window) ==
    \E w \in DOMAIN view.ledger : w[1] = window[1]

is_window_fetched_swapped(view, window) ==
    <<window[2], window[1]>> \in DOMAIN view.ledger

\* SELECT 1 FROM fetched_windows WHERE window_start = ? AND window_end = ?
is_window_fetched(view, window) == window \in DOMAIN view.ledger

\* SELECT COUNT(*) FROM log_entries
count_entries(view) == Cardinality(DOMAIN view.records)

\* the frame of a store_window call on entry; `pre`, `fetched` and `prekept`
\* are history: the identifiers stored before the call, whether the window
\* was already fetched, and the identifiers stored for it by then
NewFrame(view, window, entries, file_count) ==
    [window |-> window, entries |-> entries, file_count |-> file_count,
     i |-> 1, inserted |-> 0, kept |-> {},
     pre |-> view.records,
     fetched |-> is_window_fetched(view, window),
     prekept |-> IF is_window_fetched(view, window)
                 THEN view.ledger[window].kept ELSE {}]

NoFrame == [window |-> <<>>]

DeleteNothing(rows) == rows

\* DELETE FROM <table>
DeleteFrom(rows) == <<>>

\* the frame of a clear() call: what the connection saw on entry (history)
ClearFrame(view) == [window |-> <<>>, pre |-> view]

-----------------------------------------------------------------------------
(* Downloaded files and the parser: parser.py, models.py *)

\* A text is the sequence of its lines, each stripped ("": a blank line).
ArrayLine == "[{\"a\":1},{\"object\":5},7,{\"b\":2}]"

Lines == {"", "{\"a\":1}", "{\"a\": 1}", "{\"b\":2}", "{\"object\":5}", "7",
          "[7]", ArrayLine, "[", "{\"a\":1},", "]", "not json"}

\* the first character of a stripped line
FirstCharOf(line) ==
    IF line \in {"{\"a\":1}", "{\"a\": 1}", "{\"b\":2}", "{\"object\":5}",
                 "{\"a\":1},"}
    THEN "{"
    ELSE IF line \in {"[7]", ArrayLine, "["} THEN "[" ELSE "other"

\* json.loads(line): the decoded value, as its type and its compact form, or
\* JSONDecodeError
json_loads(line) ==
    IF line \in {"{\"a\":1}", "{\"a\": 1}"}
    THEN [raised |-> FALSE, value |-> <<"object", "{\"a\":1}">>]
    ELSE IF line \in {"{\"b\":2}", "{\"object\":5}"}
    THEN [raised |-> FALSE, value |-> <<"object", line>>]
    ELSE IF line = "7" THEN [raised |-> FALSE, value |-> <<"number", line>>]
    ELSE IF line \in {"[7]", ArrayLine}
    THEN [raised |-> FALSE, value |-> <<"list", line>>]
    ELSE [raised |-> TRUE, value |-> <<"none", "">>]

\* the items of a list written on one line
ItemsOf(line) ==
    IF line = "[7]" THEN <<json_loads("7").value>>
    ELSE <<json_loads("{\"a\":1}").value, json_loads("{\"object\":5}").value,
           json_loads("7").value, json_loads("{\"b\":2}").value>>

\* json.dumps(raw, separators=(",", ":"), sort_keys=False)
json_dumps(value) == value[2]

\* AuditLogEntry.model_validate(raw) returns: raw is an object whose fields
\* have the declared types ("object" must be an object)
model_validate(value) == value[1] = "object" /\ value[2] # "{\"object\":5}"

NoText == <<>>

\* the lines of a text that are not blank
Written(text) == SelectSeq(text, LAMBDA line : line # "")

\* text.strip() is empty
IsBlank(text) == Written(text) = <<>>

\* text.strip()[0]
FirstChar(text) == FirstCharOf(Written(text)[1])

\* a line "<value>," between the brackets of a list
CommaLine(line) == line = "{\"a\":1},"

\* json.loads(text) of a text that starts with "[": a list written on one
\* line, or "[" and "]" on lines of their own around one value per line
json_loads_text(text) ==
    LET w == Written(text)
        inner == SubSeq(w, 2, Len(w) - 1)
    IN  IF Len(w) = 1
        THEN IF w[1] \in {"[7]", ArrayLine}
             THEN [raised |-> FALSE, items |-> ItemsOf(w[1])]
             ELSE [raised |-> TRUE, items |-> <<>>]
        ELSE IF /\ Len(w) >= 2
                /\ w[1] = "[" /\ w[Len(w)] = "]"
                /\ \A i \in 1..(Len(inner) - 1) : CommaLine(inner[i])
                /\ (inner # <<>> => ~json_loads(inner[Len(inner)]).raised)
        THEN [raised |-> FALSE,
              items |-> [i \in 1..Len(inner) |->
                            IF i < Len(inner)
                            THEN json_loads("{\"a\":1}").value
                            ELSE json_loads(inner[i]).value]]
        ELSE [raised |-> TRUE, items |-> <<>>]

RECURSIVE Concat(_)
Concat(seqs) == IF seqs = <<>> THEN <<>> ELSE Head(seqs) \o Concat(Tail(seqs))

\* "\n".join(parts)
Join(parts) == Concat(parts)

\* A downloaded blob, described by what each stage of decompress makes of
\* it: gzip.decompress(data).decode, ZipFile(data) with the decoded members,
\* data.decode("utf-8").
Blob(gzip_status, gzip_text, zip_status, members, utf8_status, utf8_text) ==
    [gzip |-> [status |-> gzip_status, text |-> gzip_text],
     zip |-> [status |-> zip_status, members |-> members],
     utf8 |-> [status |-> utf8_status, text |-> utf8_text]]

\* a gzip file of the given lines
GzipOf(objs) == Blob("ok", objs, "BadZipFile", <<>>,
                     "UnicodeDecodeError", NoText)

\* a zip archive of the given member texts
ZipOf(members) == Blob("BadGzipFile", NoText, "ok", members,
                       "UnicodeDecodeError", NoText)

\* uncompressed text
RawText(text) == Blob("BadGzipFile", NoText, "BadZipFile", <<>>, "ok", text)

\* bytes that are none of the three
Garbage == Blob("BadGzipFile", NoText, "BadZipFile", <<>>,
                "UnicodeDecodeError", NoText)

\* a gzip stream cut before its end-of-stream marker
TruncatedGzip == Blob("EOFError", NoText, "BadZipFile", <<>>,
                      "UnicodeDecodeError", NoText)

\* a gzip file of bytes that are not UTF-8
GzipOfBinary == Blob("UnicodeDecodeError", NoText, "BadZipFile", <<>>,
                     "UnicodeDecodeError", NoText)

\* the exceptions that are instances of ValueError
IsValueError(exc) == exc \in {"ValueError", "UnicodeDecodeError"}

Returned(text) == [raised |-> "none", text |-> text]

Raised(exc) == [raised |-> exc, text |-> NoText]

\* decompress(data): gzip, then zip, then raw text; the gzip attempt catches
\* BadGzipFile and OSError only, the zip attempt BadZipFile only, the text
\* attempt UnicodeDecodeError only; any other exception leaves the function
decompress(data) ==
    IF data.gzip.status = "ok" THEN Returned(data.gzip.text)
    ELSE IF data.gzip.status \notin {"BadGzipFile", "OSError"}
    THEN Raised(data.gzip.status)
    ELSE IF data.zip.status = "ok" THEN Returned(Join(data.zip.members))
    ELSE IF data.zip.status # "BadZipFile" THEN Raised(data.zip.status)
    ELSE IF /\ data.utf8.status = "ok"
            /\ ~IsBlank(data.utf8.text)
            /\ FirstChar(data.utf8.text) \in {"{", "["}
    THEN Returned(data.utf8.text)
    ELSE Raised("ValueError")

RECURSIVE ParseLines(_)
\* the NDJSON loop: blank lines and lines json.loads rejects are skipped
ParseLines(lines) ==
    IF lines = <<>> THEN <<>>
    ELSE IF Head(lines) = "" \/ json_loads(Head(lines)).raised
    THEN ParseLines(Tail(lines))
    ELSE <<json_loads(Head(lines)).value>> \o ParseLines(Tail(lines))

parse_ndjson_lines_only(text) ==
    IF IsBlank(text) THEN <<>> ELSE ParseLines(text)

\* parse_ndjson(text)
parse_ndjson(text) ==
    IF IsBlank(text) THEN <<>>
    ELSE IF FirstChar(text) = "[" /\ ~json_loads_text(text).raised
    THEN json_loads_text(text).items
    ELSE ParseLines(text)

RECURSIVE Validated(_)
\* the loop of parse_log_file: the raw_json of every value that validates
Validated(raw_entries) ==
    IF raw_entries = <<>> THEN <<>>
    ELSE IF model_validate(Head(raw_entries))
    THEN <<json_dumps(Head(raw_entries))>> \o Validated(Tail(raw_entries))
    ELSE Validated(Tail(raw_entries))

\* parse_log_file(data): the raw_json of its ParsedEntry list, or the
\* exception of decompress
parse_log_file(data) ==
    IF decompress(data).raised # "none"
    THEN [raised |-> decompress(data).raised, entries |-> <<>>]
    ELSE [raised |-> "none",
          entries |-> Validated(parse_ndjson(decompress(data).text))]

RECURSIVE parse_log_files(_)
\* parse_log_files(file_data_list): the entries of every file that can be
\* processed, in file order; a ValueError skips the file, any other
\* exception ends the call.  Result: [raised, entries].
parse_log_files(file_data_list) ==
    IF file_data_list = <<>> THEN [raised |-> FALSE, entries |-> <<>>]
    ELSE LET file == parse_log_file(Head(file_data_list))
             rest == parse_log_files(Tail(file_data_list))
         IN  IF file.raised = "none"
             THEN [raised |-> rest.raised,
                   entries |-> IF rest.raised THEN <<>>
                               ELSE file.entries \o rest.entries]
             ELSE IF IsValueError(file.raised) THEN rest
             ELSE [raised |-> TRUE, entries |-> <<>>]

-----------------------------------------------------------------------------
(* The fetch orchestrator: fetcher.py *)

RECURSIVE RunLoop(_, _)
\* the for loop of store_window, run to its end or to the exception
RunLoop(records, f) ==
    IF f.i > Len(f.entries)
    THEN [records |-> records, raised |-> FALSE, frame |-> f]
    ELSE LET r == LoopEntry(records, f) IN
         IF r.raised THEN r ELSE RunLoop(r.records, r.frame)

\* a whole store_window call on the connection's view: the loop, the ledger
\* row, the commit
store_window(view, window, entries, file_count) ==
    LET r == RunLoop(view.records, NewFrame(view, window, entries, file_count))
    IN  [raised |-> r.raised,
         inserted |-> r.frame.inserted,
         view |-> [records |-> r.records,
                   ledger |-> ReplaceWindow(view.ledger, window, file_count,
                                            Len(entries), r.frame.kept)]]

\* FetchProgress(total_windows)
FetchProgress(total_windows) ==
    [total_windows |-> total_windows, completed_windows |-> 0,
     skipped_windows |-> 0, total_files |-> 0, downloaded_files |-> 0,
     total_entries |-> 0, new_entries |-> 0, errors |-> <<>>]

\* the ranges a run is started with: three whole hours, and a range that
\* starts inside it and ends in the middle of an hour
FetchRanges == {<<0, 3 * HourTicks>>,
                <<HourTicks, 2 * HourTicks + HourTicks \div 2>>}

\* what the API may list for a window: nothing, one file, a good file with
\* an undecodable one, a good file with a truncated one
UpstreamLists == {<<>>,
                  <<GzipOf(<<"{\"a\":1}">>)>>,
                  <<GzipOf(<<"{\"a\":1}", "{\"b\":2}">>), Garbage>>,
                  <<GzipOf(<<"{\"b\":2}">>), TruncatedGzip>>}

Window == f_windows[f_idx]

RECURSIVE FileProgress(_, _, _)
\* _file_progress(completed, total) for completed = 1..n, as
\* download_log_files calls it after each of the first n files
FileProgress(downloaded_files, n, total) ==
    IF n = 0 THEN downloaded_files
    ELSE FileProgress(downloaded_files, n - 1, total) - total + n

WindowFailedFirst(p, stage, window) ==
    [p EXCEPT !.errors = <<[stage |-> stage, window |-> window[1]]>> \o @]

\* progress.errors.append(error_msg): the message names the stage and the
\* window_start
WindowFailed(p, stage, window) ==
    [p EXCEPT !.errors = Append(@, [stage |-> stage, window |-> window[1]])]

\* `continue`: the for loop takes the next window
ContinueLoop(idx) == [idx |-> idx + 1, pc |-> "check"]

OnLocationErrorBreak(idx) == [idx |-> idx, pc |-> "done"]

\* the last statement of the except branch around fetch_log_locations
OnLocationError(idx) == ContinueLoop(idx)

LeaveEmptyWindow(view, window) == view

\* if not locations: cache.store_window(window_start, window_end, [], 0)
StoreEmptyWindow(view, window) == store_window(view, window, <<>>, 0).view

NoRequests == [locations |-> {}, downloads |-> {}, stores |-> {}]

\* the callbacks of FetchProgress
CallbackNames == {"on_window_start", "on_file_progress", "on_window_complete",
                  "on_window_skip", "on_error"}

\* FetchProgress.__init__: every callback is None
NoCallbacks == [c \in CallbackNames |-> "None"]

-----------------------------------------------------------------------------
(* The token manager and the API client: auth.py, client.py *)

\* TokenManager.__init__
NoToken == [access_token |-> "None", expires_at |-> 0]

is_token_valid_no_buffer(t, time) ==
    t.access_token # "None" /\ time < t.expires_at

\* TokenManager.is_token_valid, with time.time() = time
is_token_valid(t, time) ==
    IF t.access_token = "None" THEN FALSE
    ELSE time < t.expires_at - token_refresh_buffer_seconds

\* TokenManager.invalidate
invalidate(t) == [access_token |-> "None", expires_at |-> 0]

\* the expires_in of a token response: a token that is within the refresh
\* buffer from the start, and one that outlives it by a second
ExpiresIn == {token_refresh_buffer_seconds, token_refresh_buffer_seconds + 1}

\* what the token endpoint may answer to the POST of _fetch_token: a token,
\* or something that makes _fetch_token raise AuthError (an error status, a
\* transport error, a body without access_token)
TokenResponses ==
    {[kind |-> "ok", expires_in |-> e] : e \in ExpiresIn}
        \cup {[kind |-> "error", expires_in |-> 0]}

\* TokenManager._fetch_token from the response on: the fields afterwards
fetch_token(t, time, resp) ==
    IF resp.kind = "ok"
    THEN [access_token |-> "token", expires_at |-> time + resp.expires_in]
    ELSE t

\* what a GET may end with: a status, or a transport error
GetResponses == {"200", "401", "500", "RequestError"}

\* One call of fetch_log_locations or download_log_file.  pc: "idle",
\* "waiting" (download task before its semaphore), "token" / "retry_token"
\* (the POST of get_token in flight), "get" / "retry_get" (the GET in
\* flight), "returned", "failed".  The other fields are history: gets,
\* invalidations and refreshes count the GET requests sent, the invalidate()
\* calls made and the token requests sent by this call, resps lists the
\* answers to its GETs, error is the exception the call ended with.
NoCall == [pc |-> "idle", gets |-> 0, invalidations |-> 0, refreshes |-> 0,
           resps |-> <<>>, error |-> "none"]

\* headers = await self._get_auth_header(client), first attempt: with a
\* valid token the GET goes out at once, else the token request
SendFirst(call, t, time) ==
    IF is_token_valid(t, time)
    THEN [call EXCEPT !.pc = "get", !.gets = @ + 1]
    ELSE [call EXCEPT !.pc = "token", !.refreshes = @ + 1]

OnTokenResponseAgain(call, resp) ==
    IF resp.kind = "ok"
    THEN [call EXCEPT !.pc = IF call.pc = "token" THEN "get" ELSE "retry_get",
                      !.gets = @ + 1]
    ELSE IF call.refreshes <= call.invalidations + 1
    THEN [call EXCEPT !.refreshes = @ + 1]
    ELSE [call EXCEPT !.pc = "failed", !.error = "AuthError"]

\* the response to the token request of a call
OnTokenResponse(call, resp) ==
    IF resp.kind = "ok"
    THEN [call EXCEPT !.pc = IF call.pc = "token" THEN "get" ELSE "retry_get",
                      !.gets = @ + 1]
    ELSE [call EXCEPT !.pc = "failed", !.error = "AuthError"]

RetryEvery401(call, status) == status = "401"

\* except httpx.HTTPStatusError as e: if e.response.status_code == 401, in
\* the handler of the first GET only
Retry401(call, status) == status = "401" /\ call.pc = "get"

\* the token manager after the response to a GET of a call
TokenAfterGet(call, t, status) ==
    IF Retry401(call, status) THEN invalidate(t) ELSE t

\* the response to a GET of a call: 200 returns; a first 401 invalidates
\* the token and asks get_token again; an error status raises APIError; a
\* transport error raises APIError from the first GET, and leaves the
\* handler of the 401 as it is from the retry
OnGetResponse(call, t, time, status) ==
    LET c == [call EXCEPT !.resps = Append(@, status)] IN
    IF status = "200" THEN [c EXCEPT !.pc = "returned"]
    ELSE IF Retry401(call, status)
    THEN IF is_token_valid(invalidate(t), time)
         THEN [c EXCEPT !.pc = "retry_get", !.invalidations = @ + 1,
                        !.gets = @ + 1]
         ELSE [c EXCEPT !.pc = "retry_token", !.invalidations = @ + 1,
                        !.refreshes = @ + 1]
    ELSE IF status = "RequestError" /\ call.pc = "retry_get"
    THEN [c EXCEPT !.pc = "failed", !.error = "RequestError"]
    ELSE [c EXCEPT !.pc = "failed", !.error = "APIError"]

\* a call without its history: SpecNet follows every task of a run to the
\* end of the run and keeps of each only where it is and how it ended
Forget(call) == [call EXCEPT !.gets = 0, !.invalidations = 0,
                             !.refreshes = 0, !.resps = <<>>]

\* the positions at which a call has a request in flight
Posting == {"token", "retry_token"}

Getting == {"get", "retry_get"}

\* the tasks download_log_files creates for the files of window w
TasksOf(ts, w) == {t \in DOMAIN ts : t[1] = w}

\* the tasks inside `async with semaphore`: download_log_file started and
\* not finished
Holding(ts, w) == {t \in TasksOf(ts, w) : ts[t].pc \in Posting \cup Getting}

\* completed, the counter of one download_log_files call
Completed(ts, w) == {t \in TasksOf(ts, w) : ts[t].pc = "returned"}

\* asyncio.Semaphore(max_concurrent_downloads).acquire, waiters served in
\* the order they arrived, which is the order of the url list
CanAcquire(ts, t) ==
    /\ ts[t].pc = "waiting"
    /\ Cardinality(Holding(ts, t[1])) < max_concurrent_downloads
    /\ \A u \in TasksOf(ts, t[1]) : ts[u].pc = "waiting" => u[2] >= t[2]

GatherAnyDone(ts, w) == Completed(ts, w) # {}

\* asyncio.gather(*tasks) returns: every task has finished without raising
GatherDone(ts, w) == Completed(ts, w) = TasksOf(ts, w)

\* asyncio.gather(*tasks) raises: a task has raised; the other tasks are
\* not cancelled
GatherRaised(ts, w) == \E t \in TasksOf(ts, w) : ts[t].pc = "failed"

\* what the API lists for a window in SpecNet: nothing, or two files
NetLists == {<<>>, <<GzipOf(<<"{\"a\":1}", "{\"b\":2}">>), Garbage>>}

\* _file_progress(completed, total)
file_progress(p, completed, total) ==
    [p EXCEPT !.downloaded_files = @ - total + completed]

-----------------------------------------------------------------------------
(* SpecWindows: the planner as a function of its arguments *)

PlannerIdle ==
    /\ gw_pc = "idle"
    /\ gw_start = 0
    /\ gw_end = 0
    /\ gw_out = <<>>

\* LogCache.__init__ on a new database file
StoreInit ==
    /\ db = EmptyDb
    /\ tx = EmptyDb
    /\ in_tx = FALSE
    /\ st_pc = "idle"
    /\ sw = NoFrame
    /\ calls = 0

\* no fetch_audit_logs call has been made
FetchIdle ==
    /\ f_pc = "idle"
    /\ f_windows = <<>>
    /\ f_idx = 0
    /\ f_data = <<>>
    /\ progress = FetchProgress(0)
    /\ outcome = <<>>
    /\ requests = NoRequests
    /\ runs = 0

\* the process has started: no TokenManager call, no request, no task
NetIdle ==
    /\ now = 0
    /\ tm = NoToken
    /\ loc = NoCall
    /\ tasks = <<>>
    /\ upstream = <<>>

\* no callback is set, no function of the parser or the query layer is called
AuxIdle ==
    /\ callbacks = NoCallbacks
    /\ db0 = EmptyDb
    /\ call_pc = "idle"
    /\ call_args = <<>>
    /\ call_ret = <<>>

InitWindows == PlannerIdle /\ StoreInit /\ FetchIdle /\ NetIdle /\ AuxIdle

CallGenerateWindows ==
    /\ gw_pc = "idle"
    /\ \E s \in TimePoints, e \in TimePoints :
          /\ gw_start' = s
          /\ gw_end' = e
          /\ gw_out' = generate_windows(s, e)
    /\ gw_pc' = "returned"
    /\ UNCHANGED <<storeVars, fetchVars, netVars, upstream, auxVars>>

ResetWindows ==
    /\ gw_pc = "returned"
    /\ gw_pc' = "idle"
    /\ gw_start' = 0
    /\ gw_end' = 0
    /\ gw_out' = <<>>
    /\ UNCHANGED <<storeVars, fetchVars, netVars, upstream, auxVars>>

NextWindows == CallGenerateWindows \/ ResetWindows

SpecWindows == InitWindows /\ [][NextWindows]_vars

WholeSecond(t) == t % SubSecond = 0

WindowLength(w) == w[2] - w[1]

\* C1: for whole-second start < end the planner returns a non-empty list,
\* first window starting at start, last ending at end, consecutive windows
\* meeting exactly, every window of positive length at most one hour and
\* every window but the last exactly one hour long.
C1_WindowsPartition ==
    (gw_pc = "returned" /\ WholeSecond(gw_start) /\ WholeSecond(gw_end)
        /\ gw_start < gw_end) =>
        /\ Len(gw_out) >= 1
        /\ Instant(gw_out[1][1]) = gw_start
        /\ Instant(gw_out[Len(gw_out)][2]) = gw_end
        /\ \A i \in 1..(Len(gw_out) - 1) : gw_out[i][2] = gw_out[i + 1][1]
        /\ \A i \in 1..Len(gw_out) :
              WindowLength(gw_out[i]) > 0 /\ WindowLength(gw_out[i]) <= HourSeconds
        /\ \A i \in 1..(Len(gw_out) - 1) : WindowLength(gw_out[i]) = HourSeconds

\* a range of more than one hour that is no multiple of an hour: several
\* windows, the last one shorter
C1_Witness ==
    /\ gw_pc = "returned"
    /\ WholeSecond(gw_start) /\ WholeSecond(gw_end) /\ gw_start < gw_end
    /\ Len(gw_out) >= 2
    /\ WindowLength(gw_out[Len(gw_out)]) < HourSeconds

\* C2: for start >= end the planner returns the empty list.
C2_EmptyWhenStartNotBeforeEnd ==
    (gw_pc = "returned" /\ gw_start >= gw_end) => gw_out = <<>>

C2_Witness ==
    /\ gw_pc = "returned"
    /\ gw_start > gw_end
    /\ gw_out = <<>>

-----------------------------------------------------------------------------
(* SpecStore: one LogCache, statement by statement *)

\* store_window(window_start, window_end, entries, file_count): entry
CallStoreWindow ==
    /\ st_pc = "idle"
    /\ calls < MaxCalls
    /\ \E w \in StoreWindows, entries \in Batches :
          \E fc \in FileCounts(entries) :
              sw' = NewFrame(tx, w, entries, fc)
    /\ st_pc' = "sw_loop"
    /\ calls' = calls + 1
    /\ UNCHANGED <<db, tx, in_tx>>

\* one iteration of `for parsed in entries`; a payload that is valid JSON
\* but no object makes _extract_fields raise outside the try: the call ends
\* with the exception and whatever it executed stays in the open transaction
SwLoopEntry ==
    /\ st_pc = "sw_loop"
    /\ sw.i <= Len(sw.entries)
    /\ LET r == LoopEntry(tx.records, sw) IN
          /\ tx' = [tx EXCEPT !.records = r.records]
          /\ in_tx' = (in_tx \/ r.records # tx.records)
          /\ sw' = IF r.raised THEN NoFrame ELSE r.frame
          /\ st_pc' = IF r.raised THEN "idle" ELSE "sw_loop"
    /\ UNCHANGED <<db, calls>>

SwLedgerInserted ==
    /\ st_pc = "sw_loop"
    /\ sw.i > Len(sw.entries)
    /\ tx' = [tx EXCEPT !.ledger =
                 ReplaceWindow(tx.ledger, sw.window, sw.file_count,
                               sw.inserted, sw.kept)]
    /\ in_tx' = TRUE
    /\ st_pc' = "sw_commit"
    /\ UNCHANGED <<db, sw, calls>>

\* the loop is over: record the window as fetched
SwLedger ==
    /\ st_pc = "sw_loop"
    /\ sw.i > Len(sw.entries)
    /\ tx' = [tx EXCEPT !.ledger =
                 ReplaceWindow(tx.ledger, sw.window, sw.file_count,
                               Len(sw.entries), sw.kept)]
    /\ in_tx' = TRUE
    /\ st_pc' = "sw_commit"
    /\ UNCHANGED <<db, sw, calls>>

\* conn.commit(); return inserted
SwCommit ==
    /\ st_pc = "sw_commit"
    /\ db' = tx
    /\ in_tx' = FALSE
    /\ st_pc' = "sw_returned"
    /\ UNCHANGED <<tx, sw, calls>>

\* the caller has the return value and goes on
SwReturn ==
    /\ st_pc = "sw_returned"
    /\ st_pc' = "idle"
    /\ sw' = NoFrame
    /\ UNCHANGED <<db, tx, in_tx, calls>>

\* clear(): DELETE FROM log_entries
ClearEntries ==
    /\ st_pc = "idle"
    /\ calls < MaxCalls
    /\ tx' = [tx EXCEPT !.records = DeleteFrom(@)]
    /\ in_tx' = TRUE
    /\ st_pc' = "cl_windows"
    /\ sw' = ClearFrame(tx)
    /\ calls' = calls + 1
    /\ UNCHANGED db

\* clear(): DELETE FROM fetched_windows
ClearWindows ==
    /\ st_pc = "cl_windows"
    /\ tx' = [tx EXCEPT !.ledger = DeleteFrom(@)]
    /\ st_pc' = "cl_commit"
    /\ UNCHANGED <<db, in_tx, sw, calls>>

\* clear(): conn.commit()
ClearCommit ==
    /\ st_pc = "cl_commit"
    /\ db' = tx
    /\ in_tx' = FALSE
    /\ st_pc' = "cl_returned"
    /\ UNCHANGED <<tx, sw, calls>>

\* clear() has returned and the caller goes on
ClearReturn ==
    /\ st_pc = "cl_returned"
    /\ st_pc' = "idle"
    /\ sw' = NoFrame
    /\ UNCHANGED <<db, tx, in_tx, calls>>

\* close() with a transaction still open (left by a call that raised):
\* sqlite3 discards what was not committed
Close ==
    /\ st_pc = "idle"
    /\ in_tx
    /\ tx' = db
    /\ in_tx' = FALSE
    /\ UNCHANGED <<db, st_pc, sw, calls>>

\* the process is interrupted inside a LogCache method: the connection is
\* gone, the file keeps what was committed, the next process opens it anew
Interrupt ==
    /\ st_pc \notin {"idle", "sw_returned", "cl_returned"}
    /\ tx' = db
    /\ in_tx' = FALSE
    /\ st_pc' = "idle"
    /\ sw' = NoFrame
    /\ UNCHANGED <<db, calls>>

InitStore == PlannerIdle /\ StoreInit /\ FetchIdle /\ NetIdle /\ AuxIdle

NextStore ==
    \/ (CallStoreWindow /\ UNCHANGED <<gwVars, fetchVars, netVars, upstream, auxVars>>)
    \/ (SwLoopEntry /\ UNCHANGED <<gwVars, fetchVars, netVars, upstream, auxVars>>)
    \/ (SwLedger /\ UNCHANGED <<gwVars, fetchVars, netVars, upstream, auxVars>>)
    \/ (SwCommit /\ UNCHANGED <<gwVars, fetchVars, netVars, upstream, auxVars>>)
    \/ (SwReturn /\ UNCHANGED <<gwVars, fetchVars, netVars, upstream, auxVars>>)
    \/ (ClearEntries /\ UNCHANGED <<gwVars, fetchVars, netVars, upstream, auxVars>>)
    \/ (ClearWindows /\ UNCHANGED <<gwVars, fetchVars, netVars, upstream, auxVars>>)
    \/ (ClearCommit /\ UNCHANGED <<gwVars, fetchVars, netVars, upstream, auxVars>>)
    \/ (ClearReturn /\ UNCHANGED <<gwVars, fetchVars, netVars, upstream, auxVars>>)
    \/ (Close /\ UNCHANGED <<gwVars, fetchVars, netVars, upstream, auxVars>>)
    \/ (Interrupt /\ UNCHANGED <<gwVars, fetchVars, netVars, upstream, auxVars>>)

SpecStore == InitStore /\ [][NextStore]_vars

\* the identifiers of the entries of a batch that store_window does not
\* skip: the payload parses as JSON and its insert raises no storage error
Storable(entries) ==
    {entry_id(raw) : raw \in {x \in Range(entries) :
                                 IsValidJson(x) /\ x # Unbindable}}

C6_StoreWindowAtomic ==
    /\ \A id \in DOMAIN db.records :
          \E w \in DOMAIN db.ledger :
              w[1] = db.records[id].window_start /\ id \in db.ledger[w].kept
    /\ \A w \in DOMAIN db.ledger : db.ledger[w].kept \subseteq DOMAIN db.records

\* C7: a store_window call for a window already fetched, with records that
\* were already stored for that window, returns 0 and leaves the record
\* table (row count and every row) as it was before the call.
C7_RestoreIdempotent ==
    (st_pc = "sw_returned" /\ sw.fetched /\ sw.kept \subseteq sw.prekept) =>
        /\ sw.inserted = 0
        /\ tx.records = sw.pre
        /\ db.records = sw.pre
        /\ count_entries(db) = Cardinality(DOMAIN sw.pre)

\* the second store of a non-empty batch for the same window has returned
C7_Witness ==
    /\ st_pc = "sw_returned"
    /\ sw.fetched
    /\ sw.kept # {}
    /\ sw.kept \subseteq sw.prekept

Views == {db, tx}

\* C16: in the file and in the connection's view, the id of every record is
\* _entry_id of its own raw_json, and no two records hold the same payload.
C16_IdIsHashOfPayload ==
    \A view \in Views :
        /\ \A id \in DOMAIN view.records :
              id = entry_id(view.records[id].raw_json)
        /\ \A id1, id2 \in DOMAIN view.records :
              view.records[id1].raw_json = view.records[id2].raw_json
                  => id1 = id2

\* a payload stored for one window has come again in a batch for another
\* window, and the store holds it once
C16_Witness ==
    /\ st_pc = "sw_returned"
    /\ sw.inserted = 0
    /\ \E id \in sw.kept :
          /\ id \in DOMAIN db.records
          /\ db.records[id].window_start # sw.window[1]
    /\ Cardinality(DOMAIN db.records) = Cardinality(sw.kept)

\* C17: no step changes a column of a record that stays; a record new to
\* the connection carries the window_start of the store_window call that
\* inserted it; a committed record leaves the file only in the commit of
\* clear(), and leaves the connection's view only in clear().
C17_FirstWriteWins ==
    [][/\ \A id \in DOMAIN tx.records \cap DOMAIN tx'.records :
             tx'.records[id] = tx.records[id]
       /\ \A id \in DOMAIN db.records \cap DOMAIN db'.records :
             db'.records[id] = db.records[id]
       /\ \A id \in DOMAIN tx'.records \ DOMAIN tx.records :
             \/ st_pc = "sw_loop" /\ tx'.records[id].window_start = sw.window[1]
             \/ st_pc # "sw_loop" /\ id \in DOMAIN db.records
       /\ \A id \in DOMAIN db.records \ DOMAIN db'.records : st_pc = "cl_commit"
       /\ \A id \in (DOMAIN tx.records \cap DOMAIN db.records) \ DOMAIN tx'.records :
             st_pc = "idle" /\ st_pc' = "cl_windows"]_vars

\* the loop of a store_window call has passed an entry whose payload an
\* earlier call stored for another window: the row still names that window
C17_Witness ==
    /\ st_pc = "sw_loop"
    /\ sw.i > 1
    /\ entry_id(sw.entries[sw.i - 1]) \in DOMAIN sw.pre
    /\ sw.pre[entry_id(sw.entries[sw.i - 1])].window_start # sw.window[1]
    /\ tx.records = sw.pre

\* every (start, end) pair a caller may ask about: the windows the store is
\* driven with and the pairs that share only one boundary with them
Pairs == {<<w[1], v[2]>> : w \in StoreWindows, v \in StoreWindows}

\* C18: the ledger is keyed by the (start, end) pair; the ledger statement
\* of store_window puts file_count and entry_count of the call into the row
\* of its pair, adds no second row for a pair already present and leaves
\* every other row as it was; is_window_fetched(s, e) holds exactly when
\* the ledger has a row for that pair.
C18_OneRowPerWindow ==
    /\ [][(st_pc = "sw_loop" /\ st_pc' = "sw_commit") =>
             /\ DOMAIN tx'.ledger = DOMAIN tx.ledger \cup {sw.window}
             /\ tx'.ledger[sw.window].file_count = sw.file_count
             /\ tx'.ledger[sw.window].entry_count = Len(sw.entries)
             /\ \A w \in DOMAIN tx.ledger \ {sw.window} :
                   tx'.ledger[w] = tx.ledger[w]]_vars
    /\ [](\A view \in Views, p \in Pairs :
             is_window_fetched(view, p) <=> p \in DOMAIN view.ledger)

\* a window stored before has been stored again with another batch, next to
\* the row of another window
C18_Witness ==
    /\ st_pc = "sw_commit"
    /\ sw.fetched
    /\ tx.ledger[sw.window].entry_count # db.ledger[sw.window].entry_count
    /\ DOMAIN db.ledger # {sw.window}

\* C19: when clear() has returned, the file and the connection hold no
\* record and no ledger row: count_entries() is 0 and is_window_fetched is
\* false for every pair.
C19_ClearEmptiesStore ==
    st_pc = "cl_returned" =>
        /\ db = EmptyDb
        /\ tx = EmptyDb
        /\ count_entries(tx) = 0
        /\ \A p \in Pairs : ~is_window_fetched(tx, p)

\* clear() has returned on a store that held records and ledger rows
C19_Witness ==
    /\ st_pc = "cl_returned"
    /\ sw.pre.records # <<>>
    /\ sw.pre.ledger # <<>>
    /\ count_entries(db) = 0

\* C36: store_window passes over a record whose raw_json does not decode
\* (nothing is written for it and the loop goes on with the next record),
\* and the ledger row of the returned call has the file count that was
\* passed in and, as entry count, the length of the list that was passed in,
\* whatever the number of rows the call inserted.
C36_InvalidJsonSkippedLedgerCounts ==
    /\ (/\ st_pc = "sw_loop" /\ sw.i <= Len(sw.entries)
        /\ ~IsValidJson(sw.entries[sw.i])) =>
           LET r == LoopEntry(tx.records, sw) IN
               /\ ~r.raised
               /\ r.records = tx.records
               /\ r.frame = [sw EXCEPT !.i = sw.i + 1]
    /\ st_pc = "sw_returned" =>
           /\ sw.window \in DOMAIN db.ledger
           /\ db.ledger[sw.window].file_count = sw.file_count
           /\ db.ledger[sw.window].entry_count = Len(sw.entries)
           /\ \A i \in DOMAIN sw.entries :
                 /\ ~IsValidJson(sw.entries[i]) =>
                        entry_id(sw.entries[i]) \notin DOMAIN db.records
                 /\ sw.entries[i] \in Objects =>
                        entry_id(sw.entries[i]) \in DOMAIN db.records

\* a batch of an undecodable record and a record that an earlier call has
\* stored: the call returns, having inserted nothing, with entry count 2
C36_Witness ==
    /\ st_pc = "sw_returned"
    /\ sw.entries = <<"not json", "{\"a\":1}">>
    /\ sw.inserted = 0
    /\ db.ledger[sw.window].entry_count = 2
    /\ db.ledger[sw.window].file_count = 1

-----------------------------------------------------------------------------
(* Spec: fetch_audit_logs runs over the store *)

Terminated == f_pc \in {"idle", "done", "raised"}

\* fetch_audit_logs(settings, cache, start, end): up to the for loop, with a
\* fresh FetchProgress
StartRun ==
    /\ Terminated
    /\ runs < MaxRuns
    /\ \E r \in FetchRanges :
          /\ f_windows' = generate_windows(r[1], r[2])
          /\ progress' = FetchProgress(Len(generate_windows(r[1], r[2])))
          /\ outcome' = [i \in 1..Len(generate_windows(r[1], r[2])) |-> "pending"]
    /\ f_idx' = 1
    /\ f_pc' = "check"
    /\ f_data' = <<>>
    /\ requests' = NoRequests
    /\ runs' = runs + 1
    /\ UNCHANGED storeVars

\* the window is in the ledger: count it as skipped and go on
SkipWindow ==
    /\ f_pc = "check"
    /\ f_idx <= Len(f_windows)
    /\ is_window_fetched(tx, Window)
    /\ progress' = [progress EXCEPT !.skipped_windows = @ + 1,
                                    !.completed_windows = @ + 1]
    /\ outcome' = [outcome EXCEPT ![f_idx] = "skipped"]
    /\ f_idx' = ContinueLoop(f_idx).idx
    /\ f_pc' = ContinueLoop(f_idx).pc
    /\ UNCHANGED <<storeVars, f_windows, f_data, requests, runs>>

\* the window is not in the ledger: await fetch_log_locations
RequestLocations ==
    /\ f_pc = "check"
    /\ f_idx <= Len(f_windows)
    /\ ~is_window_fetched(tx, Window)
    /\ requests' = [requests EXCEPT !.locations = @ \cup {f_idx}]
    /\ f_pc' = "resolve"
    /\ UNCHANGED <<storeVars, f_windows, f_idx, f_data, progress, outcome, runs>>

\* fetch_log_locations raised (APIError, AuthError, ...): one message, next
\* window
LocationsFailed ==
    /\ f_pc = "resolve"
    /\ progress' = WindowFailed(progress, "locations", Window)
    /\ outcome' = [outcome EXCEPT ![f_idx] = "locfail"]
    /\ f_idx' = OnLocationError(f_idx).idx
    /\ f_pc' = OnLocationError(f_idx).pc
    /\ UNCHANGED <<storeVars, f_windows, f_data, requests, runs>>

\* fetch_log_locations returned []: the window is recorded with no file and
\* no entry
LocationsEmpty ==
    /\ f_pc = "resolve"
    /\ db' = StoreEmptyWindow(tx, Window)
    /\ tx' = StoreEmptyWindow(tx, Window)
    /\ requests' = [requests EXCEPT !.stores = @ \cup {f_idx}]
    /\ progress' = [progress EXCEPT !.completed_windows = @ + 1]
    /\ outcome' = [outcome EXCEPT ![f_idx] = "empty"]
    /\ f_idx' = ContinueLoop(f_idx).idx
    /\ f_pc' = ContinueLoop(f_idx).pc
    /\ UNCHANGED <<in_tx, st_pc, sw, calls, f_windows, f_data, runs>>

\* fetch_log_locations returned files: await download_log_files
LocationsListed ==
    /\ f_pc = "resolve"
    /\ \E locations \in UpstreamLists \ {<<>>} :
          /\ f_data' = locations
          /\ progress' = [progress EXCEPT !.total_files = @ + Len(locations)]
    /\ requests' = [requests EXCEPT !.downloads = @ \cup {f_idx}]
    /\ f_pc' = "download"
    /\ UNCHANGED <<storeVars, f_windows, f_idx, outcome, runs>>

\* download_log_files raised after k files had completed: one message,
\* nothing stored, next window
DownloadFailed ==
    /\ f_pc = "download"
    /\ \E k \in 0..(Len(f_data) - 1) :
          progress' = WindowFailed(
              [progress EXCEPT !.downloaded_files =
                                   FileProgress(@, k, Len(f_data))],
              "download", Window)
    /\ outcome' = [outcome EXCEPT ![f_idx] = "dlfail"]
    /\ f_data' = <<>>
    /\ f_idx' = ContinueLoop(f_idx).idx
    /\ f_pc' = ContinueLoop(f_idx).pc
    /\ UNCHANGED <<storeVars, f_windows, requests, runs>>

\* every download completed; parse_log_files returned; store_window
DownloadedAndStored ==
    /\ f_pc = "download"
    /\ ~parse_log_files(f_data).raised
    /\ LET entries == parse_log_files(f_data).entries
           stored == store_window(tx, Window, entries, Len(f_data))
       IN  /\ db' = stored.view
           /\ tx' = stored.view
           /\ progress' = [progress EXCEPT
                  !.downloaded_files =
                      FileProgress(@, Len(f_data), Len(f_data)) + Len(f_data),
                  !.total_entries = @ + Len(entries),
                  !.new_entries = @ + stored.inserted,
                  !.completed_windows = @ + 1]
    /\ requests' = [requests EXCEPT !.stores = @ \cup {f_idx}]
    /\ outcome' = [outcome EXCEPT ![f_idx] = "stored"]
    /\ f_data' = <<>>
    /\ f_idx' = ContinueLoop(f_idx).idx
    /\ f_pc' = ContinueLoop(f_idx).pc
    /\ UNCHANGED <<in_tx, st_pc, sw, calls, f_windows, runs>>

\* every download completed; parse_log_files let an exception through (it
\* catches ValueError only): nothing around it in fetch_audit_logs catches
\* it, and the call ends with the exception
DownloadedAndRaised ==
    /\ f_pc = "download"
    /\ parse_log_files(f_data).raised
    /\ progress' = [progress EXCEPT
           !.downloaded_files =
               FileProgress(@, Len(f_data), Len(f_data)) + Len(f_data)]
    /\ outcome' = [outcome EXCEPT ![f_idx] = "raised"]
    /\ f_data' = <<>>
    /\ f_pc' = "raised"
    /\ UNCHANGED <<storeVars, f_windows, f_idx, requests, runs>>

\* the for loop is over: return progress
Return ==
    /\ f_pc = "check"
    /\ f_idx > Len(f_windows)
    /\ f_pc' = "done"
    /\ UNCHANGED <<storeVars, f_windows, f_idx, f_data, progress, outcome,
                   requests, runs>>

\* between runs, in a process of its own: the whole of clear(); the report
\* of the last run is gone with its process
ClearCache ==
    /\ Terminated
    /\ db # EmptyDb
    /\ db' = EmptyDb
    /\ tx' = EmptyDb
    /\ f_pc' = "idle"
    /\ f_windows' = <<>>
    /\ f_idx' = 0
    /\ progress' = FetchProgress(0)
    /\ outcome' = <<>>
    /\ requests' = NoRequests
    /\ UNCHANGED <<in_tx, st_pc, sw, calls, f_data, runs>>

Init == PlannerIdle /\ StoreInit /\ FetchIdle /\ NetIdle /\ AuxIdle

Next ==
    \/ (StartRun /\ UNCHANGED <<gwVars, netVars, upstream, auxVars>>)
    \/ (SkipWindow /\ UNCHANGED <<gwVars, netVars, upstream, auxVars>>)
    \/ (RequestLocations /\ UNCHANGED <<gwVars, netVars, upstream, auxVars>>)
    \/ (LocationsFailed /\ UNCHANGED <<gwVars, netVars, upstream, auxVars>>)
    \/ (LocationsEmpty /\ UNCHANGED <<gwVars, netVars, upstream, auxVars>>)
    \/ (LocationsListed /\ UNCHANGED <<gwVars, netVars, upstream, auxVars>>)
    \/ (DownloadFailed /\ UNCHANGED <<gwVars, netVars, upstream, auxVars>>)
    \/ (DownloadedAndStored /\ UNCHANGED <<gwVars, netVars, upstream, auxVars>>)
    \/ (DownloadedAndRaised /\ UNCHANGED <<gwVars, netVars, upstream, auxVars>>)
    \/ (Return /\ UNCHANGED <<gwVars, netVars, upstream, auxVars>>)
    \/ (ClearCache /\ UNCHANGED <<gwVars, netVars, upstream, auxVars>>)

Spec == Init /\ [][Next]_vars

\* the windows of the run that ended in one of the given ways
Ended(ways) == {i \in DOMAIN outcome : outcome[i] \in ways}

\* the messages in progress.errors that name window i
ErrorsOf(i) == {k \in DOMAIN progress.errors :
                    progress.errors[k].window = f_windows[i][1]}

\* C3: a window whose location resolution failed has exactly one error
\* message, is not in the ledger, had no store_window call, and the loop
\* went on to the next window; a run whose only failures are location
\* failures returns normally with every other window completed and in the
\* ledger and one error per failed window.
C3_LocationFailureIsolated ==
    /\ \A i \in Ended({"locfail"}) :
          /\ Cardinality(ErrorsOf(i)) = 1
          /\ f_windows[i] \notin DOMAIN db.ledger
          /\ i \notin requests.stores
          /\ f_idx > i
    /\ (f_pc \in {"done", "raised"} /\ Ended({"dlfail", "raised"}) = {}) =>
          /\ f_pc = "done"
          /\ Ended({"pending"}) = {}
          /\ progress.completed_windows
                 = Len(f_windows) - Cardinality(Ended({"locfail"}))
          /\ Len(progress.errors) = Cardinality(Ended({"locfail"}))
          /\ \A i \in DOMAIN outcome \ Ended({"locfail"}) :
                 f_windows[i] \in DOMAIN db.ledger

\* the scenario of the claim: three windows, the second fails to resolve,
\* the first and the third are stored
C3_Witness ==
    /\ f_pc = "done"
    /\ outcome = <<"stored", "locfail", "stored">>
    /\ progress.completed_windows = 2
    /\ Len(progress.errors) = 1
    /\ runs = 1

\* C4: once the window loop has started, fetch_audit_logs never ends with
\* an exception.
C4_NeverRaises == f_pc # "raised"

\* C9: a window resolved to an empty list is in the ledger with file_count
\* 0 and entry_count 0, through a store_window call, and counts as
\* completed; a window with such a row that had its turn in a later run was
\* skipped without a location request.
C9_EmptyWindowRecorded ==
    /\ \A i \in Ended({"empty"}) :
          /\ f_windows[i] \in DOMAIN db.ledger
          /\ db.ledger[f_windows[i]].file_count = 0
          /\ db.ledger[f_windows[i]].entry_count = 0
          /\ i \in requests.stores
    /\ progress.completed_windows
           = Cardinality(Ended({"empty", "stored", "skipped"}))
    /\ \A i \in DOMAIN outcome \ Ended({"pending", "empty"}) :
          (/\ f_windows[i] \in DOMAIN db.ledger
           /\ db.ledger[f_windows[i]].file_count = 0)
              => (outcome[i] = "skipped" /\ i \notin requests.locations)

\* a second run has skipped a window that an earlier run recorded as empty
C9_Witness ==
    /\ runs = 2
    /\ \E i \in Ended({"skipped"}) :
          /\ db.ledger[f_windows[i]].file_count = 0
          /\ db.ledger[f_windows[i]].entry_count = 0
          /\ i \notin requests.locations

\* C10: when the window at the head of the loop is in the ledger, the step
\* taken issues no location request, no download and no store_window call,
\* leaves the store alone, adds one to skipped_windows and to
\* completed_windows, and moves the loop to the next window.
C10_CachedWindowSkipped ==
    [][(f_pc = "check" /\ f_idx <= Len(f_windows)
            /\ f_windows[f_idx] \in DOMAIN db.ledger) =>
          /\ requests' = requests
          /\ db' = db
          /\ progress' = [progress EXCEPT !.skipped_windows = @ + 1,
                                          !.completed_windows = @ + 1]
          /\ f_idx' = f_idx + 1
          /\ f_pc' = "check"]_vars

\* a window stored with its files by an earlier run has been skipped
C10_Witness ==
    \E i \in Ended({"skipped"}) :
        /\ db.ledger[f_windows[i]].file_count > 0
        /\ progress.skipped_windows >= 1
        /\ requests.locations \cap {i} = {}
        /\ f_idx > i

\* C32: progress.downloaded_files is a running count of the files
\* downloaded: it stays between 0 and total_files, grows by n over a window
\* whose n downloads succeed, and equals total_files at the end of a run
\* without errors.
C32_DownloadedFilesRunningCount ==
    /\ 0 <= progress.downloaded_files
    /\ progress.downloaded_files <= progress.total_files
    /\ (f_pc = "done" /\ progress.errors = <<>>) =>
           progress.downloaded_files = progress.total_files

\* the windows of the run that ended with an error message
FailedWindows == Ended({"locfail", "dlfail"})

\* C39: with a fresh FetchProgress, when the loop is between two windows
\* completed_windows + len(errors) is the number of windows processed so
\* far; skipped_windows <= completed_windows and new_entries <=
\* total_entries throughout; at return completed_windows + len(errors) =
\* total_windows, and errors holds one message per failed window, in the
\* order of the windows.
C39_ProgressAccounting ==
    /\ f_pc = "check" =>
          progress.completed_windows + Len(progress.errors) = f_idx - 1
    /\ progress.skipped_windows <= progress.completed_windows
    /\ progress.new_entries <= progress.total_entries
    /\ f_pc = "done" =>
          /\ progress.completed_windows + Len(progress.errors)
                 = progress.total_windows
          /\ progress.total_windows = Len(f_windows)
          /\ Len(progress.errors) = Cardinality(FailedWindows)
          /\ \A i \in DOMAIN outcome :
                Cardinality(ErrorsOf(i)) = IF i \in FailedWindows THEN 1 ELSE 0
          /\ \A i, j \in FailedWindows :
                i < j => \A k \in ErrorsOf(i), l \in ErrorsOf(j) : k < l

\* a second run has skipped one window and recorded a failed location
\* request and a failed download for the next two, in that order
C39_Witness ==
    /\ f_pc = "done"
    /\ outcome = <<"skipped", "locfail", "dlfail">>
    /\ progress.completed_windows = 1
    /\ progress.skipped_windows = 1
    /\ Len(progress.errors) = 2
    /\ progress.errors[1].stage = "locations"
    /\ progress.errors[2].stage = "download"

-----------------------------------------------------------------------------
(* SpecNet: one run of fetch_audit_logs on the event loop.  An action is a
   piece of one coroutine from one suspension to the next; the download
   tasks and the clock move only while fetch_audit_logs is suspended in an
   await. *)

Suspended == f_pc \in {"resolve", "download"}

\* fetch_audit_logs over a range of two windows, with its own TokenManager
NetStartRun ==
    /\ runs = 0
    /\ StartRun
    /\ Len(f_windows') = 2
    /\ tm' = NoToken
    /\ loc' = NoCall
    /\ tasks' = <<>>
    /\ UNCHANGED now

\* the window is not in the ledger: fetch_log_locations up to its first
\* request
NetRequestLocations ==
    /\ RequestLocations
    /\ loc' = Forget(SendFirst(NoCall, tm, now))
    /\ UNCHANGED <<now, tm, tasks>>

\* fetch_log_locations: the token request is answered with a token, the GET
\* goes out
LocTokenGranted ==
    /\ f_pc = "resolve"
    /\ loc.pc \in Posting
    /\ \E resp \in TokenResponses :
          /\ resp.kind = "ok"
          /\ tm' = fetch_token(tm, now, resp)
          /\ loc' = Forget(OnTokenResponse(loc, resp))
    /\ UNCHANGED <<storeVars, fetchVars, now, tasks>>

\* fetch_log_locations: the token request fails; AuthError reaches the
\* except branch of fetch_audit_logs
LocTokenRefused ==
    /\ loc.pc \in Posting
    /\ \E resp \in TokenResponses :
          /\ resp.kind # "ok"
          /\ tm' = fetch_token(tm, now, resp)
          /\ loc' = Forget(OnTokenResponse(loc, resp))
    /\ LocationsFailed
    /\ UNCHANGED <<now, tasks>>

\* fetch_log_locations: the first GET is answered 401
LocGetRetried ==
    /\ f_pc = "resolve"
    /\ loc.pc \in Getting
    /\ \E status \in GetResponses :
          /\ OnGetResponse(loc, tm, now, status).pc \notin {"returned", "failed"}
          /\ loc' = Forget(OnGetResponse(loc, tm, now, status))
          /\ tm' = TokenAfterGet(loc, tm, status)
    /\ UNCHANGED <<storeVars, fetchVars, now, tasks>>

\* fetch_log_locations raises from a GET
LocGetFailed ==
    /\ loc.pc \in Getting
    /\ \E status \in GetResponses :
          /\ OnGetResponse(loc, tm, now, status).pc = "failed"
          /\ loc' = Forget(OnGetResponse(loc, tm, now, status))
          /\ tm' = TokenAfterGet(loc, tm, status)
    /\ LocationsFailed
    /\ UNCHANGED <<now, tasks>>

\* fetch_log_locations returns []
LocGetEmpty ==
    /\ loc.pc \in Getting
    /\ loc' = Forget(OnGetResponse(loc, tm, now, "200"))
    /\ LocationsEmpty
    /\ UNCHANGED <<now, tm, tasks>>

\* fetch_log_locations returns urls: download_log_files makes one task per
\* url and awaits asyncio.gather
LocGetListed ==
    /\ loc.pc \in Getting
    /\ loc' = Forget(OnGetResponse(loc, tm, now, "200"))
    /\ LocationsListed
    /\ f_data' \in NetLists
    /\ tasks' = [t \in DOMAIN tasks \cup {<<f_idx, i>> : i \in 1..Len(f_data')}
                    |-> IF t \in DOMAIN tasks THEN tasks[t]
                        ELSE [NoCall EXCEPT !.pc = "waiting"]]
    /\ UNCHANGED <<now, tm>>

\* _download_one enters `async with semaphore` and download_log_file runs
\* up to its first request
TaskAcquire ==
    /\ Suspended
    /\ \E t \in DOMAIN tasks :
          /\ CanAcquire(tasks, t)
          /\ tasks' = [tasks EXCEPT ![t] = Forget(SendFirst(@, tm, now))]
    /\ UNCHANGED <<storeVars, fetchVars, now, tm, loc>>

\* download_log_file: the token request is answered; without a token the
\* task ends with AuthError and leaves the semaphore
TaskTokenResponse ==
    /\ Suspended
    /\ \E t \in DOMAIN tasks, resp \in TokenResponses :
          /\ tasks[t].pc \in Posting
          /\ tm' = fetch_token(tm, now, resp)
          /\ tasks' = [tasks EXCEPT ![t] = Forget(OnTokenResponse(@, resp))]
    /\ UNCHANGED <<storeVars, fetchVars, now, loc>>

\* download_log_file: a GET is answered; on 200 _download_one stores the
\* bytes, counts the file and calls on_progress
TaskGetResponse ==
    /\ Suspended
    /\ \E t \in DOMAIN tasks, status \in GetResponses :
          /\ tasks[t].pc \in Getting
          /\ tasks' = [tasks EXCEPT ![t] =
                           Forget(OnGetResponse(@, tm, now, status))]
          /\ tm' = TokenAfterGet(tasks[t], tm, status)
          /\ progress' =
                IF status = "200"
                THEN file_progress(progress,
                                   Cardinality(Completed(tasks, t[1])) + 1,
                                   Cardinality(TasksOf(tasks, t[1])))
                ELSE progress
    /\ UNCHANGED <<storeVars, f_pc, f_windows, f_idx, f_data, outcome,
                   requests, runs, now, loc>>

\* asyncio.gather raised: the except branch around download_log_files
NetDownloadFailed ==
    /\ GatherRaised(tasks, f_idx)
    /\ DownloadFailed
    /\ progress' = WindowFailed(progress, "download", Window)
    /\ UNCHANGED netVars

\* asyncio.gather returned: the files are parsed and stored
NetDownloadedAndStored ==
    /\ f_pc = "download"
    /\ GatherDone(tasks, f_idx)
    /\ ~parse_log_files(f_data).raised
    /\ LET entries == parse_log_files(f_data).entries
           stored == store_window(tx, Window, entries, Len(f_data))
       IN  /\ db' = stored.view
           /\ tx' = stored.view
           /\ progress' = [progress EXCEPT
                  !.downloaded_files = @ + Len(f_data),
                  !.total_entries = @ + Len(entries),
                  !.new_entries = @ + stored.inserted,
                  !.completed_windows = @ + 1]
    /\ requests' = [requests EXCEPT !.stores = @ \cup {f_idx}]
    /\ outcome' = [outcome EXCEPT ![f_idx] = "stored"]
    /\ f_data' = <<>>
    /\ f_idx' = ContinueLoop(f_idx).idx
    /\ f_pc' = ContinueLoop(f_idx).pc
    /\ UNCHANGED <<in_tx, st_pc, sw, calls, f_windows, runs, netVars>>

\* the loop is over: the client is closed, fetch_audit_logs returns and
\* asyncio.run cancels the tasks that are left
NetReturn ==
    /\ Return
    /\ tasks' = [t \in DOMAIN tasks |->
                    IF tasks[t].pc \in {"returned", "failed"} THEN tasks[t]
                    ELSE [tasks[t] EXCEPT !.pc = "cancelled"]]
    /\ UNCHANGED <<now, tm, loc>>

\* a second passes
Tick ==
    /\ Suspended
    /\ now < MaxTime
    /\ now' = now + 1
    /\ UNCHANGED <<storeVars, fetchVars, tm, loc, tasks>>

InitNet == PlannerIdle /\ StoreInit /\ FetchIdle /\ NetIdle /\ AuxIdle

NextNet ==
    \/ (NetStartRun /\ UNCHANGED <<gwVars, upstream, auxVars>>)
    \/ (NetRequestLocations /\ UNCHANGED <<gwVars, upstream, auxVars>>)
    \/ (LocTokenGranted /\ UNCHANGED <<gwVars, upstream, auxVars>>)
    \/ (LocTokenRefused /\ UNCHANGED <<gwVars, upstream, auxVars>>)
    \/ (LocGetRetried /\ UNCHANGED <<gwVars, upstream, auxVars>>)
    \/ (LocGetFailed /\ UNCHANGED <<gwVars, upstream, auxVars>>)
    \/ (LocGetEmpty /\ UNCHANGED <<gwVars, upstream, auxVars>>)
    \/ (LocGetListed /\ UNCHANGED <<gwVars, upstream, auxVars>>)
    \/ (TaskAcquire /\ UNCHANGED <<gwVars, upstream, auxVars>>)
    \/ (TaskTokenResponse /\ UNCHANGED <<gwVars, upstream, auxVars>>)
    \/ (TaskGetResponse /\ UNCHANGED <<gwVars, upstream, auxVars>>)
    \/ (NetDownloadFailed /\ UNCHANGED <<gwVars, upstream, auxVars>>)
    \/ (NetDownloadedAndStored /\ UNCHANGED <<gwVars, upstream, auxVars>>)
    \/ (NetReturn /\ UNCHANGED <<gwVars, upstream, auxVars>>)
    \/ (Tick /\ UNCHANGED <<gwVars, upstream, auxVars>>)

SpecNet == InitNet /\ [][NextNet]_vars

-----------------------------------------------------------------------------
(* Claims about the run on the event loop (SpecNet) *)

\* the download tasks that have not finished: waiting for the semaphore or
\* with a request in flight
Unfinished(ts) == {t \in DOMAIN ts : ts[t].pc \in {"waiting"} \cup Posting \cup Getting}

\* the records attributed to window w
RecordsOf(view, w) ==
    {id \in DOMAIN view.records : view.records[id].window_start = w[1]}

\* C11: store_window has been called for a window only with every download
\* task of the window returned, one per file of its ledger row; a window
\* with a failed download that the loop has left had no store_window call,
\* has no record and no ledger row, has exactly one error message, and the
\* loop went on to the next window.
C11_StoreAfterAllDownloads ==
    /\ \A i \in requests.stores :
          /\ \A t \in TasksOf(tasks, i) : tasks[t].pc = "returned"
          /\ Cardinality(TasksOf(tasks, i)) = db.ledger[f_windows[i]].file_count
    /\ \A i \in DOMAIN outcome :
          (GatherRaised(tasks, i) /\ (f_idx > i \/ f_pc = "done")) =>
              /\ outcome[i] = "dlfail"
              /\ i \notin requests.stores
              /\ f_windows[i] \notin DOMAIN db.ledger
              /\ RecordsOf(db, f_windows[i]) = {}
              /\ Cardinality(ErrorsOf(i)) = 1
              /\ f_idx > i

\* the first window failed in a download, the second was stored after both
\* of its downloads
C11_Witness ==
    /\ f_pc = "done"
    /\ outcome = <<"dlfail", "stored">>
    /\ GatherRaised(tasks, 1)
    /\ Cardinality(Completed(tasks, 2)) = 2
    /\ RecordsOf(db, f_windows[2]) # {}

\* C12: a download task that has not finished belongs to the window the
\* loop is at, and that window is in its download step.
C12_WindowsSequential ==
    \A t \in Unfinished(tasks) : t[1] = f_idx /\ f_pc = "download"

\* C13: the download_log_file calls started and not finished are at most
\* settings.max_concurrent_downloads.
C13_BoundedDownloads ==
    Cardinality({t \in DOMAIN tasks : tasks[t].pc \in Posting \cup Getting})
        <= max_concurrent_downloads

\* the window of the fetch_log_locations call that `loc` follows
Located == CHOOSE i \in requests.locations : \A j \in requests.locations : j <= i

\* the loop has left window i with one error message, without a
\* store_window call and without a ledger row
LeftAsFailed(i, way) ==
    /\ outcome[i] = way
    /\ Cardinality(ErrorsOf(i)) = 1
    /\ i \notin requests.stores
    /\ f_windows[i] \notin DOMAIN db.ledger
    /\ RecordsOf(db, f_windows[i]) = {}
    /\ (f_idx > i \/ f_pc = "done")

\* C35: a token request that fails while fetch_log_locations or a download
\* of a window is acquiring its token ends that call with AuthError, without
\* another attempt; the window gets one error message and no ledger row, and
\* the loop goes on with the next window.
C35_AuthFailureEndsOperation ==
    /\ requests.locations # {} =>
          /\ outcome[Located] = "locfail" => loc.pc = "failed"
          /\ (loc.pc = "failed" /\ loc.error = "AuthError") =>
                 LeftAsFailed(Located, "locfail")
    /\ \A t \in DOMAIN tasks :
          tasks[t].error = "AuthError" =>
              /\ tasks[t].pc = "failed"
              /\ (f_idx > t[1] \/ f_pc = "done") => LeftAsFailed(t[1], "dlfail")

\* the first window lost a download to a refused token request, the second
\* its location request, and the run returned
C35_Witness ==
    /\ f_pc = "done"
    /\ outcome = <<"dlfail", "locfail">>
    /\ \E t \in TasksOf(tasks, 1) : tasks[t].error = "AuthError"
    /\ loc.pc = "failed" /\ loc.error = "AuthError"
    /\ Len(progress.errors) = 2
    /\ db.ledger = EmptyDb.ledger

-----------------------------------------------------------------------------
(* SpecClient: calls of fetch_log_locations / download_log_file running
   concurrently on one TokenManager, as the download tasks of one
   download_log_files call do, each followed with its history *)

\* the coroutines that call the client
ClientSlots == {1, 2}

InitClient ==
    /\ PlannerIdle /\ StoreInit /\ FetchIdle
    /\ now = 0
    /\ tm = NoToken
    /\ loc = NoCall
    /\ tasks = [s \in ClientSlots |-> NoCall]
    /\ upstream = <<>>
    /\ AuxIdle

\* a coroutine calls fetch_log_locations or download_log_file: get_token,
\* then the first request
ClientCall ==
    /\ \E s \in ClientSlots :
          /\ tasks[s].pc \in {"idle", "returned", "failed"}
          /\ tasks' = [tasks EXCEPT ![s] = SendFirst(NoCall, tm, now)]
    /\ UNCHANGED <<storeVars, fetchVars, now, tm, loc>>

\* the token request of a call is answered
ClientTokenResponse ==
    /\ \E s \in ClientSlots, resp \in TokenResponses :
          /\ tasks[s].pc \in Posting
          /\ tm' = fetch_token(tm, now, resp)
          /\ tasks' = [tasks EXCEPT ![s] = OnTokenResponse(@, resp)]
    /\ UNCHANGED <<storeVars, fetchVars, now, loc>>

\* a GET of a call is answered
ClientGetResponse ==
    /\ \E s \in ClientSlots, status \in GetResponses :
          /\ tasks[s].pc \in Getting
          /\ tasks' = [tasks EXCEPT ![s] = OnGetResponse(@, tm, now, status)]
          /\ tm' = TokenAfterGet(tasks[s], tm, status)
    /\ UNCHANGED <<storeVars, fetchVars, now, loc>>

\* a second passes
ClientTick ==
    /\ now < MaxTime
    /\ now' = now + 1
    /\ UNCHANGED <<storeVars, fetchVars, tm, loc, tasks>>

NextClient ==
    \/ (ClientCall /\ UNCHANGED <<gwVars, upstream, auxVars>>)
    \/ (ClientTokenResponse /\ UNCHANGED <<gwVars, upstream, auxVars>>)
    \/ (ClientGetResponse /\ UNCHANGED <<gwVars, upstream, auxVars>>)
    \/ (ClientTick /\ UNCHANGED <<gwVars, upstream, auxVars>>)

SpecClient == InitClient /\ [][NextClient]_vars

FirstIs401(c) == Len(c.resps) >= 1 /\ c.resps[1] = "401"

CallEnded(c) == c.pc \in {"returned", "failed"}

\* what C14 says of one call, the number of retries aside
RetryDiscipline(c) ==
    /\ c.gets <= 2
    /\ c.invalidations <= 1
    /\ Len(c.resps) <= c.gets
    /\ c.invalidations = (IF FirstIs401(c) THEN 1 ELSE 0)
    /\ c.refreshes <= 1 + c.invalidations
    /\ (FirstIs401(c) /\ c.gets = 1) =>
          \/ c.pc = "retry_token" /\ c.refreshes >= 1
          \/ c.pc = "failed" /\ c.error = "AuthError"
    /\ (Len(c.resps) = 2 /\ c.resps[2] # "200") => c.pc = "failed"
    /\ (Len(c.resps) >= 1 /\ c.resps[1] \in {"500", "RequestError"}) =>
          /\ c.pc = "failed"
          /\ c.gets = 1
          /\ c.invalidations = 0

\* C14 as stated: in every call a first 401 brings exactly one invalidation,
\* one token request and exactly one retry of the GET; a second 401 ends
\* the call with a failure; another error to the first GET ends the call
\* without retry and without invalidation; no call sends more than two GETs
\* or invalidates more than once.
C14_RetryExactlyOnce ==
    \A s \in DOMAIN tasks :
        /\ RetryDiscipline(tasks[s])
        /\ (FirstIs401(tasks[s]) /\ CallEnded(tasks[s])) => tasks[s].gets = 2

\* C14 amended: as above, but the retry follows only if the token request
\* after the invalidation yields a token; if it fails the call ends with
\* that failure, having sent one GET.
C14_RetryAtMostOnce ==
    \A s \in DOMAIN tasks :
        /\ RetryDiscipline(tasks[s])
        /\ (FirstIs401(tasks[s]) /\ CallEnded(tasks[s])) =>
              \/ tasks[s].gets = 2
              \/ tasks[s].gets = 1 /\ tasks[s].error = "AuthError"

\* one call ended on its second 401, another returned from its retry
C14_Witness ==
    /\ tasks[1].pc = "failed" /\ tasks[1].resps = <<"401", "401">>
    /\ tasks[1].gets = 2 /\ tasks[1].invalidations = 1
    /\ tasks[2].pc = "returned" /\ tasks[2].resps = <<"401", "200">>

\* C15: a get_token call made while a token is cached and the clock is
\* before its expiry minus the buffer sends no token request and leaves the
\* token as it is; any other get_token call sends a token request, and the
\* caller goes on only with the token that request delivered; the get_token
\* call after an invalidate() always sends a token request.
C15_TokenCachedUntilBuffer ==
    [][\A s \in ClientSlots :
          LET c == tasks[s]
              c2 == tasks'[s]
              cached == /\ tm.access_token # "None"
                        /\ now < tm.expires_at - token_refresh_buffer_seconds
          IN  /\ (c.pc \notin Posting \cup Getting /\ c2.pc \in Posting \cup Getting) =>
                    IF cached
                    THEN c2.pc = "get" /\ c2.refreshes = 0 /\ tm' = tm
                    ELSE c2.pc = "token" /\ c2.refreshes = 1
              /\ c2.invalidations > c.invalidations =>
                    /\ c2.pc = "retry_token"
                    /\ c2.refreshes = c.refreshes + 1
                    /\ tm'.access_token = "None"
              /\ (c.pc \in Posting /\ c2.pc # c.pc) =>
                    \/ /\ c2.pc \in Getting
                       /\ tm'.access_token = "token"
                       /\ tm'.expires_at - now \in ExpiresIn
                    \/ c2.pc = "failed" /\ c2.error = "AuthError"]_vars

\* a call sent its GET with the cached token, a second after another call
\* had the token invalidated and requested anew
C15_Witness ==
    \E s, u \in ClientSlots :
        /\ tasks[s].pc = "get" /\ tasks[s].refreshes = 0
        /\ tasks[u].invalidations = 1 /\ tasks[u].pc \in {"retry_get", "returned"}
        /\ now > 0

\* C34: a call of fetch_log_locations or download_log_file that ends
\* because a request of its own failed (an error status or a transport
\* error, to the first GET or to the GET sent again after a 401) ends with
\* APIError.
C34_RequestFailureIsAPIError ==
    \A s \in DOMAIN tasks :
        (/\ tasks[s].pc = "failed"
         /\ tasks[s].resps # <<>>
         /\ tasks[s].resps[Len(tasks[s].resps)] # "200"
         /\ tasks[s].error # "AuthError") => tasks[s].error = "APIError"

\* C33: the token has a single owner: at most one token request
\* (_fetch_token) is in flight at any moment, also when calls running
\* concurrently find the token expired or are answered 401 together.
C33_SingleRefresher ==
    Cardinality({s \in DOMAIN tasks : tasks[s].pc \in Posting}) <= 1

-----------------------------------------------------------------------------
(* SpecResume: fetch_audit_logs over one range and one set of upstream
   files, every request answered, with store_window statement by statement;
   the process may be interrupted anywhere and the command run anew *)

\* the range every run of SpecResume is given: three whole hours
ResumeRange == <<0, 3 * HourTicks>>

\* what the API may hold for a window of that range
ResumeLists == {<<>>,
                <<GzipOf(<<"{\"a\":1}">>)>>,
                <<GzipOf(<<"{\"a\":1}", "{\"b\":2}">>), Garbage>>}

InitResume ==
    /\ PlannerIdle /\ StoreInit /\ FetchIdle /\ AuxIdle
    /\ now = 0
    /\ tm = NoToken
    /\ loc = NoCall
    /\ tasks = <<>>
    /\ upstream \in [1..Len(generate_windows(ResumeRange[1], ResumeRange[2]))
                        -> ResumeLists]

ResumeStartRun ==
    /\ StartRun
    /\ f_windows' = generate_windows(ResumeRange[1], ResumeRange[2])

\* fetch_log_locations returns [] for a window without files
ResumeLocationsEmpty ==
    /\ f_pc = "resolve"
    /\ upstream[f_idx] = <<>>
    /\ LocationsEmpty

\* fetch_log_locations returns the urls of the window's files
ResumeLocationsListed ==
    /\ f_pc = "resolve"
    /\ upstream[f_idx] # <<>>
    /\ LocationsListed
    /\ f_data' = upstream[f_idx]

\* every download completed and parse_log_files returned: store_window is
\* entered
ResumeCallStore ==
    /\ f_pc = "download"
    /\ st_pc = "idle"
    /\ ~parse_log_files(f_data).raised
    /\ sw' = NewFrame(tx, Window, parse_log_files(f_data).entries, Len(f_data))
    /\ st_pc' = "sw_loop"
    /\ f_pc' = "store"
    /\ progress' = [progress EXCEPT
           !.downloaded_files =
               FileProgress(@, Len(f_data), Len(f_data)) + Len(f_data),
           !.total_entries = @ + Len(parse_log_files(f_data).entries)]
    /\ requests' = [requests EXCEPT !.stores = @ \cup {f_idx}]
    /\ UNCHANGED <<db, tx, in_tx, calls, f_windows, f_idx, f_data, outcome,
                   runs>>

\* store_window returned: the counters, then the next window
ResumeStored ==
    /\ f_pc = "store"
    /\ st_pc = "sw_returned"
    /\ st_pc' = "idle"
    /\ sw' = NoFrame
    /\ progress' = [progress EXCEPT !.new_entries = @ + sw.inserted,
                                    !.completed_windows = @ + 1]
    /\ outcome' = [outcome EXCEPT ![f_idx] = "stored"]
    /\ f_data' = <<>>
    /\ f_idx' = ContinueLoop(f_idx).idx
    /\ f_pc' = ContinueLoop(f_idx).pc
    /\ UNCHANGED <<db, tx, in_tx, calls, f_windows, requests, runs>>

\* the process is interrupted inside fetch_audit_logs: its state is gone,
\* the file keeps what was committed
InterruptRun ==
    /\ f_pc \in {"check", "resolve", "download", "store"}
    /\ tx' = db
    /\ in_tx' = FALSE
    /\ st_pc' = "idle"
    /\ sw' = NoFrame
    /\ f_pc' = "idle"
    /\ f_windows' = <<>>
    /\ f_idx' = 0
    /\ f_data' = <<>>
    /\ progress' = FetchProgress(0)
    /\ outcome' = <<>>
    /\ requests' = NoRequests
    /\ UNCHANGED <<db, calls, runs>>

NextResume ==
    \/ (ResumeStartRun /\ UNCHANGED <<gwVars, netVars, upstream, auxVars>>)
    \/ (SkipWindow /\ UNCHANGED <<gwVars, netVars, upstream, auxVars>>)
    \/ (RequestLocations /\ UNCHANGED <<gwVars, netVars, upstream, auxVars>>)
    \/ (ResumeLocationsEmpty /\ UNCHANGED <<gwVars, netVars, upstream, auxVars>>)
    \/ (ResumeLocationsListed /\ UNCHANGED <<gwVars, netVars, upstream, auxVars>>)
    \/ (ResumeCallStore /\ UNCHANGED <<gwVars, netVars, upstream, auxVars>>)
    \/ (SwLoopEntry /\ UNCHANGED <<gwVars, fetchVars, netVars, upstream, auxVars>>)
    \/ (SwLedger /\ UNCHANGED <<gwVars, fetchVars, netVars, upstream, auxVars>>)
    \/ (SwCommit /\ UNCHANGED <<gwVars, fetchVars, netVars, upstream, auxVars>>)
    \/ (ResumeStored /\ UNCHANGED <<gwVars, netVars, upstream, auxVars>>)
    \/ (Return /\ UNCHANGED <<gwVars, netVars, upstream, auxVars>>)
    \/ (InterruptRun /\ UNCHANGED <<gwVars, netVars, upstream, auxVars>>)

SpecResume == InitResume /\ [][NextResume]_vars

\* the entries parse_log_files yields for window i of the range
EntriesOf(i) == parse_log_files(upstream[i]).entries

\* the payloads the files of the whole range hold
RangePayloads == UNION {Range(EntriesOf(i)) : i \in DOMAIN upstream}

\* the first window of the range whose files hold payload x
FirstWindowWith(x) ==
    CHOOSE i \in DOMAIN upstream :
        /\ x \in Range(EntriesOf(i))
        /\ \A j \in 1..(i - 1) : x \notin Range(EntriesOf(j))

\* the step is an interruption of a run that had a window in flight
InterruptedInFlight ==
    f_pc \in {"resolve", "download", "store"} /\ f_pc' = "idle"

\* a run never skips a window that is not in the ledger
AbsentWindowProcessed ==
    (f_pc = "check" /\ f_idx <= Len(f_windows)
        /\ f_windows[f_idx] \notin DOMAIN db.ledger) =>
        f_pc' \in {"check", "resolve", "idle"} /\ f_idx' # f_idx + 1

\* a run that returns, after any number of interrupted runs, leaves what
\* one uninterrupted run leaves: every window of the range in the ledger,
\* and one record per payload of the range, attributed to the first window
\* that holds it
SameAsUninterrupted ==
    f_pc = "done" =>
        /\ DOMAIN db.ledger = Range(f_windows)
        /\ DOMAIN db.records = {entry_id(x) : x \in RangePayloads}
        /\ \A x \in RangePayloads :
              db.records[entry_id(x)] =
                  [raw_json |-> x,
                   window_start |-> f_windows[FirstWindowWith(x)][1]]

\* C20 as stated: an interruption at any point leaves the window in flight
\* out of the ledger, the next run processes it again, and the run that
\* returns leaves what one uninterrupted run leaves.
C20_InterruptLeavesWindowAbsent ==
    /\ [][/\ InterruptedInFlight => f_windows[f_idx] \notin DOMAIN db'.ledger
          /\ AbsentWindowProcessed]_vars
    /\ []SameAsUninterrupted

\* C20 amended: an interruption before the commit of the window's
\* store_window leaves the window out of the ledger and the next run
\* processes it again; an interruption after that commit finds the window
\* in the ledger with all its records, and the next run skips it; either
\* way the run that returns leaves what one uninterrupted run leaves.
C20_InterruptedRunResumes ==
    /\ [][/\ InterruptedInFlight =>
                IF st_pc = "sw_returned"
                THEN /\ f_windows[f_idx] \in DOMAIN db'.ledger
                     /\ {entry_id(x) : x \in Range(EntriesOf(f_idx))}
                            \subseteq DOMAIN db'.records
                ELSE f_windows[f_idx] \notin DOMAIN db'.ledger
          /\ AbsentWindowProcessed]_vars
    /\ []SameAsUninterrupted

\* a run has returned that skipped a window an interrupted run had stored
\* and stored the windows that run had not finished
C20_Witness ==
    /\ f_pc = "done"
    /\ outcome[1] = "skipped"
    /\ outcome[2] = "stored"
    /\ progress.new_entries > 0
    /\ runs = 2


-----------------------------------------------------------------------------
(* SpecObserve: fetch_audit_logs with callbacks set on the FetchProgress it
   is given, over one range and one set of answers of the API; the
   downloads of a window are taken in file order up to the first exception *)

\* the callbacks a caller sets: none, all of them, all of them with one
\* that raises
ObservedCallbacks ==
    {NoCallbacks, [c \in CallbackNames |-> "returns"]}
        \cup {[c \in CallbackNames |-> IF c = r THEN "raises" ELSE "returns"] :
                 r \in CallbackNames}

\* `if progress.on_x: progress.on_x(...)` ends with an exception
Raises(cb, name) == cb[name] = "raises"

\* what the API answers for a window: the location request fails, or it
\* lists files; `failing` is the index of the file whose download fails
\* (0: none)
ObsAnswers ==
    {[locations |-> "APIError", files |-> <<>>, failing |-> 0],
     [locations |-> "ok", files |-> <<>>, failing |-> 0],
     [locations |-> "ok", files |-> <<GzipOf(<<"{\"a\":1}">>)>>, failing |-> 0],
     [locations |-> "ok",
      files |-> <<GzipOf(<<"{\"a\":1}", "{\"b\":2}">>), Garbage>>, failing |-> 0],
     [locations |-> "ok",
      files |-> <<GzipOf(<<"{\"a\":1}", "{\"b\":2}">>), Garbage>>, failing |-> 2]}

ObsWindows == generate_windows(ResumeRange[1], ResumeRange[2])

\* the run at the head of the for loop: the store, the FetchProgress, the
\* requests made, and whether an exception has left fetch_audit_logs
RunState(view, p, reqs) ==
    [view |-> view, progress |-> p, requests |-> reqs, pc |-> "check",
     how |-> "pending"]

\* `continue`, or the exception of a callback leaving fetch_audit_logs
AfterCallback(s, cb, name, how) ==
    [s EXCEPT !.pc = IF Raises(cb, name) THEN "raised" ELSE "check",
              !.how = IF Raises(cb, name) THEN "raised" ELSE how]

\* the branch of a window that is in the ledger
ObsSkipped(s, i, cb) ==
    AfterCallback(
        [s EXCEPT !.progress.skipped_windows = @ + 1,
                  !.progress.completed_windows = @ + 1],
        cb, "on_window_skip", "skipped")

\* the except branches: one message, on_error, continue
ObsFailed(s, i, cb, stage) ==
    AfterCallback(
        [s EXCEPT !.progress = WindowFailed(@, stage, ObsWindows[i])],
        cb, "on_error", IF stage = "locations" THEN "locfail" ELSE "dlfail")

\* the _file_progress calls download_log_files makes before gather ends:
\* one per completed file, the last of them raising if on_file_progress
\* raises; `done` tells whether gather returned
Downloads(a, cb) ==
    IF a.failing = 1 THEN [updates |-> 0, done |-> FALSE]
    ELSE IF Raises(cb, "on_file_progress") THEN [updates |-> 1, done |-> FALSE]
    ELSE IF a.failing > 0 THEN [updates |-> a.failing - 1, done |-> FALSE]
    ELSE [updates |-> Len(a.files), done |-> TRUE]

\* the branch `if not locations`
ObsEmpty(s, i, cb) ==
    AfterCallback(
        [s EXCEPT !.view = StoreEmptyWindow(@, ObsWindows[i]),
                  !.requests.stores = @ \cup {i},
                  !.progress.completed_windows = @ + 1],
        cb, "on_window_complete", "empty")

\* download_log_files, then parse_log_files and store_window
ObsDownloaded(s, i, a, cb) ==
    LET n == Len(a.files)
        d == Downloads(a, cb)
        s1 == [s EXCEPT !.requests.downloads = @ \cup {i},
                        !.progress.downloaded_files =
                            FileProgress(@, d.updates, n)]
        entries == parse_log_files(a.files).entries
        stored == store_window(s.view, ObsWindows[i], entries, n)
    IN  IF ~d.done THEN ObsFailed(s1, i, cb, "download")
        ELSE AfterCallback(
                 [s1 EXCEPT !.progress.downloaded_files = @ + n,
                            !.progress.total_entries = @ + Len(entries),
                            !.progress.new_entries = @ + stored.inserted,
                            !.progress.completed_windows = @ + 1,
                            !.view = stored.view,
                            !.requests.stores = @ \cup {i}],
                 cb, "on_window_complete", "stored")

\* fetch_log_locations returned: total_files, on_window_start, then one of
\* the two branches
ObsListed(s, i, a, cb) ==
    LET s1 == [s EXCEPT !.progress.total_files = @ + Len(a.files)]
    IN  IF Raises(cb, "on_window_start")
        THEN [s1 EXCEPT !.pc = "raised", !.how = "raised"]
        ELSE IF a.files = <<>> THEN ObsEmpty(s1, i, cb)
        ELSE ObsDownloaded(s1, i, a, cb)

\* one iteration of the for loop
WindowStep(s, i, a, cb) ==
    IF is_window_fetched(s.view, ObsWindows[i]) THEN ObsSkipped(s, i, cb)
    ELSE LET s1 == [s EXCEPT !.requests.locations = @ \cup {i}]
         IN  IF a.locations # "ok" THEN ObsFailed(s1, i, cb, "locations")
             ELSE ObsListed(s1, i, a, cb)

RECURSIVE RunFrom(_, _, _, _)
\* the for loop from window i on, to its end or to the exception that
\* leaves it
RunFrom(s, i, answers, cb) ==
    IF i > Len(ObsWindows) \/ s.pc = "raised" THEN s
    ELSE RunFrom(WindowStep(s, i, answers[i], cb), i + 1, answers, cb)

InitObserve ==
    /\ PlannerIdle /\ StoreInit /\ FetchIdle
    /\ now = 0
    /\ tm = NoToken
    /\ loc = NoCall
    /\ tasks = <<>>
    /\ upstream \in [1..Len(ObsWindows) -> ObsAnswers]
    /\ callbacks \in ObservedCallbacks
    /\ db0 = EmptyDb
    /\ call_pc = "idle"
    /\ call_args = <<>>
    /\ call_ret = <<>>

\* fetch_audit_logs(settings, cache, start, end, progress)
ObsStartRun ==
    /\ StartRun
    /\ f_windows' = ObsWindows
    /\ db0' = db

\* the state of the run the variables hold
ObsNow == RunState(tx, progress, requests)

\* one iteration of the for loop has run
ObsApply(s) ==
    /\ db' = s.view
    /\ tx' = s.view
    /\ progress' = s.progress
    /\ requests' = s.requests
    /\ outcome' = [outcome EXCEPT ![f_idx] = s.how]
    /\ f_pc' = s.pc
    /\ f_idx' = IF s.pc = "check" THEN ContinueLoop(f_idx).idx ELSE f_idx
    /\ UNCHANGED <<in_tx, st_pc, sw, calls, f_windows, f_data, runs>>

AtWindow == f_pc = "check" /\ f_idx <= Len(f_windows)

ObsSkipWindow ==
    /\ AtWindow
    /\ is_window_fetched(tx, Window)
    /\ ObsApply(WindowStep(ObsNow, f_idx, upstream[f_idx], callbacks))

ObsLocationsFailed ==
    /\ AtWindow
    /\ ~is_window_fetched(tx, Window)
    /\ upstream[f_idx].locations # "ok"
    /\ ObsApply(WindowStep(ObsNow, f_idx, upstream[f_idx], callbacks))

ObsLocationsEmpty ==
    /\ AtWindow
    /\ ~is_window_fetched(tx, Window)
    /\ upstream[f_idx].locations = "ok"
    /\ upstream[f_idx].files = <<>>
    /\ ObsApply(WindowStep(ObsNow, f_idx, upstream[f_idx], callbacks))

ObsDownloadFailed ==
    /\ AtWindow
    /\ ~is_window_fetched(tx, Window)
    /\ upstream[f_idx].locations = "ok"
    /\ upstream[f_idx].files # <<>>
    /\ ~Downloads(upstream[f_idx], callbacks).done
    /\ ObsApply(WindowStep(ObsNow, f_idx, upstream[f_idx], callbacks))

ObsDownloadedAndStored ==
    /\ AtWindow
    /\ ~is_window_fetched(tx, Window)
    /\ upstream[f_idx].locations = "ok"
    /\ upstream[f_idx].files # <<>>
    /\ Downloads(upstream[f_idx], callbacks).done
    /\ ObsApply(WindowStep(ObsNow, f_idx, upstream[f_idx], callbacks))

NextObserve ==
    \/ (ObsStartRun
          /\ UNCHANGED <<gwVars, netVars, upstream, callbacks, call_pc,
                         call_args, call_ret>>)
    \/ (ObsSkipWindow /\ UNCHANGED <<gwVars, netVars, upstream, auxVars>>)
    \/ (ObsLocationsFailed /\ UNCHANGED <<gwVars, netVars, upstream, auxVars>>)
    \/ (ObsLocationsEmpty /\ UNCHANGED <<gwVars, netVars, upstream, auxVars>>)
    \/ (ObsDownloadFailed /\ UNCHANGED <<gwVars, netVars, upstream, auxVars>>)
    \/ (ObsDownloadedAndStored
          /\ UNCHANGED <<gwVars, netVars, upstream, auxVars>>)
    \/ (Return /\ UNCHANGED <<gwVars, netVars, upstream, auxVars>>)

SpecObserve == InitObserve /\ [][NextObserve]_vars

\* the same run, from the same file and against the same answers, with no
\* callback set
Unobserved ==
    RunFrom(RunState(db0, FetchProgress(Len(ObsWindows)), NoRequests), 1,
            upstream, NoCallbacks)

\* C21: a run that has ended, whatever its callbacks do, has made the
\* requests, written the store and returned the counters of the run with no
\* callback set.
C21_CallbacksAdvisory ==
    f_pc \in {"done", "raised"} =>
        /\ f_pc = "done"
        /\ requests = Unobserved.requests
        /\ db = Unobserved.view
        /\ progress = Unobserved.progress

-----------------------------------------------------------------------------
(* SpecParser: decompress, parse_ndjson, parse_log_file and parse_log_files
   as functions of their argument *)

\* a list written over several lines, and the same text cut before "]"
PrettyArray == <<"[", "{\"a\":1},", "{\"b\":2}", "]">>

CutArray == <<"[", "{\"a\":1},", "{\"b\":2}">>

\* records around a line that does not parse
BrokenLine == <<"{\"a\": 1}", "not json", "{\"b\":2}">>

Texts ==
    UNION {[1..n -> Lines] : n \in 0..MaxLines}
        \cup {PrettyArray, CutArray, BrokenLine}

\* the members of the zip archives handed to decompress
MemberTexts == {<<>>, <<"{\"a\":1}">>, <<"{\"b\":2}", "">>, <<"[7]">>}

\* a zip archive with a member that is not UTF-8
ZipOfBinary == Blob("BadGzipFile", NoText, "UnicodeDecodeError", <<>>,
                    "UnicodeDecodeError", NoText)

Blobs ==
    {GzipOf(t) : t \in Texts} \cup {RawText(t) : t \in Texts}
        \cup {ZipOf(m) : m \in UNION {[1..n -> MemberTexts] : n \in 0..2}}
        \cup {Garbage, TruncatedGzip, GzipOfBinary, ZipOfBinary}

\* the files of the lists handed to parse_log_files
FileSamples ==
    {GzipOf(BrokenLine),
     GzipOf(<<"{\"b\":2}">>),
     ZipOf(<<(<<"{\"a\":1}">>), (<<"{\"b\":2}", "">>)>>),
     RawText(<<ArrayLine>>),
     Garbage, TruncatedGzip, GzipOfBinary}

FileLists == UNION {[1..n -> FileSamples] : n \in 0..MaxFiles}

Called(name, args, ret) ==
    /\ call_pc' = name
    /\ call_args' = args
    /\ call_ret' = ret

CallDecompress ==
    /\ call_pc = "idle"
    /\ \E data \in Blobs : Called("decompress", <<data>>, decompress(data))

CallParseNdjson ==
    /\ call_pc = "idle"
    /\ \E text \in Texts :
           Called("parse_ndjson", <<text>>, [entries |-> parse_ndjson(text)])

CallParseLogFile ==
    /\ call_pc = "idle"
    /\ \E data \in Blobs : Called("parse_log_file", <<data>>, parse_log_file(data))

CallParseLogFiles ==
    /\ call_pc = "idle"
    /\ \E file_data_list \in FileLists :
           Called("parse_log_files", <<file_data_list>>,
                  parse_log_files(file_data_list))

\* the caller drops the result
CallDone ==
    /\ call_pc # "idle"
    /\ call_pc' = "idle"
    /\ call_args' = <<>>
    /\ call_ret' = <<>>

InitParser == PlannerIdle /\ StoreInit /\ FetchIdle /\ NetIdle /\ AuxIdle

\* what a call of a function leaves alone
callFrame == <<gwVars, storeVars, fetchVars, netVars, upstream, callbacks, db0>>

NextParser ==
    \/ (CallDecompress /\ UNCHANGED callFrame)
    \/ (CallParseNdjson /\ UNCHANGED callFrame)
    \/ (CallParseLogFile /\ UNCHANGED callFrame)
    \/ (CallParseLogFiles /\ UNCHANGED callFrame)
    \/ (CallDone /\ UNCHANGED callFrame)

SpecParser == InitParser /\ [][NextParser]_vars

\* the files of a list that can be processed: parse_log_file returns
CanProcess(data) == parse_log_file(data).raised = "none"

\* C22: parse_log_files never raises, and returns the records of the files
\* that can be processed, file after file.
C22_PerFileIsolation ==
    call_pc = "parse_log_files" =>
        /\ ~call_ret.raised
        /\ call_ret.entries =
               Concat([i \in DOMAIN call_args[1] |->
                          IF CanProcess(call_args[1][i])
                          THEN parse_log_file(call_args[1][i]).entries
                          ELSE <<>>])

\* the raw text stage accepts the bytes
RawAccepted(data) ==
    /\ data.utf8.status = "ok"
    /\ ~IsBlank(data.utf8.text)
    /\ FirstChar(data.utf8.text) \in {"{", "["}

\* C29: decompress returns the text of the first stage that succeeds, in the
\* order gzip, zip (members joined in archive order), raw text (accepted
\* only when it starts with "{" or "["), and raises ValueError when none
\* succeeds.
C29_DecompressOrder ==
    call_pc = "decompress" =>
        LET data == call_args[1] IN
        IF data.gzip.status = "ok"
        THEN call_ret = Returned(data.gzip.text)
        ELSE IF data.zip.status = "ok"
        THEN call_ret = Returned(Concat(data.zip.members))
        ELSE IF RawAccepted(data)
        THEN call_ret = Returned(data.utf8.text)
        ELSE IsValueError(call_ret.raised)

\* the values a text holds, in order: the items of the list when the text
\* starts with "[" and is a JSON list, else what its non-empty lines decode
\* to
DecodedOf(text) ==
    IF ~IsBlank(text) /\ FirstChar(text) = "[" /\ ~json_loads_text(text).raised
    THEN json_loads_text(text).items
    ELSE LET good == SelectSeq(text, LAMBDA line :
                                   line # "" /\ ~json_loads(line).raised)
         IN  [i \in DOMAIN good |-> json_loads(good[i]).value]

\* C30: parse_log_file returns the values of the text that pass validation,
\* in the order of the list or of the lines; lines that do not parse and
\* values that do not validate are left out and nothing else is.
C30_ParseLogFileKeepsOrder ==
    (call_pc = "parse_log_file" /\ call_ret.raised = "none") =>
        LET valid == SelectSeq(DecodedOf(decompress(call_args[1]).text),
                               model_validate)
        IN  call_ret.entries = [i \in DOMAIN valid |-> json_dumps(valid[i])]

\* a file whose second line does not parse has given its first and third
\* records
C30_Witness ==
    /\ call_pc = "parse_log_file"
    /\ call_args[1] = GzipOf(BrokenLine)
    /\ call_ret.entries = <<"{\"a\":1}", "{\"b\":2}">>

-----------------------------------------------------------------------------
(* SpecInsert: store_window calls, statement by statement, on batches with
   records whose insert raises sqlite3.Error *)

\* the batches: up to three entries, objects that can be stored and one
\* that cannot
FailingBatches == UNION {[1..n -> Objects \cup {Unbindable}] : n \in 1..(MaxBatch + 1)}

CallStoreWindowFailing ==
    /\ st_pc = "idle"
    /\ calls < 2
    /\ \E w \in StoreWindows, entries \in FailingBatches :
          sw' = NewFrame(tx, w, entries, 1)
    /\ st_pc' = "sw_loop"
    /\ calls' = calls + 1
    /\ UNCHANGED <<db, tx, in_tx>>

InitInsert == PlannerIdle /\ StoreInit /\ FetchIdle /\ NetIdle /\ AuxIdle

NextInsert ==
    \/ (CallStoreWindowFailing /\ UNCHANGED <<gwVars, fetchVars, netVars, upstream, auxVars>>)
    \/ (SwLoopEntry /\ UNCHANGED <<gwVars, fetchVars, netVars, upstream, auxVars>>)
    \/ (SwLedger /\ UNCHANGED <<gwVars, fetchVars, netVars, upstream, auxVars>>)
    \/ (SwCommit /\ UNCHANGED <<gwVars, fetchVars, netVars, upstream, auxVars>>)
    \/ (SwReturn /\ UNCHANGED <<gwVars, fetchVars, netVars, upstream, auxVars>>)

SpecInsert == InitInsert /\ [][NextInsert]_vars

\* the entries of the batch whose insert raised
FailedOf(entries) == {i \in DOMAIN entries : entries[i] = Unbindable}

\* C23: when store_window returns from a batch with a record whose insert
\* raised a storage error, that record is not stored and not counted, every
\* other record of the batch is committed, and the ledger row of the window
\* is committed with the length of the batch.
C23_InsertErrorSkipsOneRecord ==
    (st_pc = "sw_returned" /\ FailedOf(sw.entries) # {}) =>
        /\ \A i \in DOMAIN sw.entries :
              (entry_id(sw.entries[i]) \in DOMAIN db.records)
                  <=> (i \notin FailedOf(sw.entries))
        /\ sw.inserted =
               Cardinality({entry_id(sw.entries[i]) :
                               i \in DOMAIN sw.entries \ FailedOf(sw.entries)}
                           \ DOMAIN sw.pre)
        /\ sw.window \in DOMAIN db.ledger
        /\ db.ledger[sw.window].entry_count = Len(sw.entries)
        /\ db.ledger[sw.window].file_count = sw.file_count
        /\ ~in_tx

\* a batch whose second insert raised has been stored: the records before
\* and after it are new
C23_Witness ==
    /\ st_pc = "sw_returned"
    /\ Len(sw.entries) = 3
    /\ FailedOf(sw.entries) = {2}
    /\ sw.inserted = 2
    /\ sw.window \in DOMAIN db.ledger

-----------------------------------------------------------------------------
(* SpecQuery: query_entries and count_entries on a store of records with
   their indexed columns.  A string is the sequence of its characters, a
   timestamp the sequence of its digits. *)

\* SQLite's LIKE folds the case of ASCII letters
Lower(c) == IF c = "A" THEN "a" ELSE IF c = "B" THEN "b" ELSE c

RECURSIVE Like(_, _)
\* text LIKE pattern: "%" stands for any run of characters, "_" for any one
\* character
Like(pattern, text) ==
    IF pattern = <<>> THEN text = <<>>
    ELSE IF Head(pattern) = "%"
    THEN Like(Tail(pattern), text) \/ (text # <<>> /\ Like(pattern, Tail(text)))
    ELSE IF text = <<>> THEN FALSE
    ELSE IF Head(pattern) = "_" THEN Like(Tail(pattern), Tail(text))
    ELSE Lower(Head(pattern)) = Lower(Head(text))
             /\ Like(Tail(pattern), Tail(text))

\* f"%{term}%"
Wrapped(term) == <<"%">> \o term \o <<"%">>

RECURSIVE TextLeq(_, _)
\* a <= b on TEXT values: character by character, a prefix first
TextLeq(a, b) ==
    IF a = <<>> THEN TRUE
    ELSE IF b = <<>> THEN FALSE
    ELSE IF Head(a) # Head(b) THEN Head(a) < Head(b)
    ELSE TextLeq(Tail(a), Tail(b))

\* a row of log_entries: the columns the queries read
Row(timestamp, category, action, actor_id, outcome_type, source, client_ip,
    environment, raw_json) ==
    [timestamp |-> timestamp, category |-> category, action |-> action,
     actor_id |-> actor_id, outcome_type |-> outcome_type, source |-> source,
     client_ip |-> client_ip, environment |-> environment,
     raw_json |-> raw_json]

\* the records the stores of SpecQuery are made of
SampleRows ==
    {Row(<<1>>, <<"a", "b">>, <<"x">>, <<>>, <<"b">>, <<"x">>, <<"1">>, <<>>,
         <<"n", "1">>),
     Row(<<2>>, <<"x">>, <<"A">>, <<"a", "_">>, <<"a">>, <<"b">>, <<>>, <<"a">>,
         <<"n", "2">>),
     Row(<<1, 0>>, <<>>, <<"x">>, <<"b">>, <<>>, <<"_">>, <<"%">>, <<"x">>,
         <<"n", "3", "%">>),
     Row(<<2>>, <<"A", "B">>, <<"x">>, <<"x">>, <<"a">>, <<>>, <<"1">>, <<"b">>,
         <<"n", "4">>)}

\* a store holding the given rows, keyed by their id
StoreOf(rows) ==
    [records |-> [id \in {entry_id(r.raw_json) : r \in rows} |->
                     CHOOSE r \in rows : entry_id(r.raw_json) = id],
     ledger |-> <<>>]

QueryStores ==
    {StoreOf(rows) : rows \in {S \in SUBSET SampleRows : Cardinality(S) <= MaxRows}}

\* the arguments of query_entries; an argument left out, None or "" is <<>>
NoFilters ==
    [start |-> <<>>, end |-> <<>>, category |-> <<>>, action |-> <<>>,
     actor |-> <<>>, outcome |-> <<>>, source |-> <<>>, ip |-> <<>>,
     search |-> <<>>, limit |-> 500, offset |-> 0]

StringFilters == {"category", "action", "actor", "outcome", "source", "ip"}

\* the column a string filter reads
ColumnOf(name) ==
    IF name = "actor" THEN "actor_id"
    ELSE IF name = "outcome" THEN "outcome_type"
    ELSE IF name = "ip" THEN "client_ip"
    ELSE name

Terms == {<<"a">>, <<"A", "B">>, <<"_">>, <<"%">>}

TimeBounds == {<<1>>, <<2>>}

\* the values a filter is given
ValuesOf(name) == IF name \in {"start", "end"} THEN TimeBounds ELSE Terms

FilterNames == StringFilters \cup {"start", "end", "search"}

\* one filter given
OneFilter ==
    UNION {{[NoFilters EXCEPT ![name] = v] : v \in ValuesOf(name)} :
              name \in FilterNames}

\* a second filter given with it
TwoFilters ==
    UNION {{[p[1] EXCEPT ![p[2]] = v] : v \in ValuesOf(p[2])} :
              p \in OneFilter \X FilterNames}

\* up to two filters given, with a page
QueryArgs ==
    {[f EXCEPT !.limit = page[1], !.offset = page[2]] :
        f \in {NoFilters} \cup OneFilter \cup TwoFilters,
        page \in {1, MaxRows + 1} \X {0, 1}}

\* count_entries takes start, end, category, action, actor and outcome
CountArgs ==
    {f \in QueryArgs : f.source = <<>> /\ f.ip = <<>> /\ f.search = <<>>}

SearchColumns == {"raw_json", "action", "category", "actor_id", "environment"}

\* the WHERE clause count_entries builds
CountWhereNoOutcome(row, f) ==
    /\ (f.start # <<>> => TextLeq(f.start, row.timestamp))
    /\ (f.end # <<>> => TextLeq(row.timestamp, f.end))
    /\ \A name \in {"category", "action", "actor"} :
          f[name] # <<>> => Like(Wrapped(f[name]), row[ColumnOf(name)])

CountWhere(row, f) ==
    /\ (f.start # <<>> => TextLeq(f.start, row.timestamp))
    /\ (f.end # <<>> => TextLeq(row.timestamp, f.end))
    /\ \A name \in {"category", "action", "actor", "outcome"} :
          f[name] # <<>> => Like(Wrapped(f[name]), row[ColumnOf(name)])

\* the WHERE clause query_entries builds
QueryWhere(row, f) ==
    /\ (f.start # <<>> => TextLeq(f.start, row.timestamp))
    /\ (f.end # <<>> => TextLeq(row.timestamp, f.end))
    /\ \A name \in StringFilters :
          f[name] # <<>> => Like(Wrapped(f[name]), row[ColumnOf(name)])
    /\ (f.search # <<>> =>
           \E column \in SearchColumns : Like(Wrapped(f.search), row[column]))

\* the orders ORDER BY timestamp DESC may give the rows (rows with one
\* timestamp come in any order)
OrderByTimestampDesc(rows) ==
    {s \in [1..Cardinality(rows) -> rows] :
        /\ \A i, j \in DOMAIN s : i # j => s[i] # s[j]
        /\ \A i, j \in DOMAIN s : i < j => TextLeq(s[j].timestamp, s[i].timestamp)}

\* LIMIT ? OFFSET ?
LimitOffset(s, limit, offset) == SubSeq(s, offset + 1, Min(Len(s), offset + limit))

\* query_entries(**f): the lists it may return
query_entries(view, f) ==
    {LimitOffset(s, f.limit, f.offset) :
        s \in OrderByTimestampDesc({r \in Range(view.records) : QueryWhere(r, f)})}

\* count_entries(**f)
count_entries_where(view, f) ==
    Cardinality({r \in Range(view.records) : CountWhere(r, f)})

InitQuery ==
    /\ PlannerIdle /\ FetchIdle /\ NetIdle /\ AuxIdle
    /\ db \in QueryStores
    /\ tx = db
    /\ in_tx = FALSE
    /\ st_pc = "idle"
    /\ sw = NoFrame
    /\ calls = 0

CallQueryEntries ==
    /\ call_pc = "idle"
    /\ \E f \in QueryArgs : \E rows \in query_entries(tx, f) :
           Called("query_entries", f, rows)

CallCountEntries ==
    /\ call_pc = "idle"
    /\ \E f \in CountArgs :
           Called("count_entries", f, count_entries_where(tx, f))

NextQuery ==
    \/ (CallQueryEntries /\ UNCHANGED callFrame)
    \/ (CallCountEntries /\ UNCHANGED callFrame)
    \/ (CallDone /\ UNCHANGED callFrame)

SpecQuery == InitQuery /\ [][NextQuery]_vars

\* term occurs in text as a literal substring, letter case ignored
Occurs(term, text) ==
    \E i \in 0..(Len(text) - Len(term)) :
        \A j \in 1..Len(term) : Lower(text[i + j]) = Lower(term[j])

\* the row satisfies every predicate that is supplied
Satisfies(row, f) ==
    /\ (f.start # <<>> => TextLeq(f.start, row.timestamp))
    /\ (f.end # <<>> => TextLeq(row.timestamp, f.end))
    /\ \A name \in StringFilters :
          f[name] # <<>> => Occurs(f[name], row[ColumnOf(name)])
    /\ (f.search # <<>> =>
           \E column \in SearchColumns : Occurs(f.search, row[column]))

Stored == Range(db.records)

\* C24: query_entries returns the records that satisfy every supplied
\* predicate, newest timestamp first, without the first `offset` of them and
\* at most `limit` of them.
C24_QueryReturnsMatches ==
    call_pc = "query_entries" =>
        \E s \in OrderByTimestampDesc({r \in Stored : Satisfies(r, call_args)}) :
            call_ret = SubSeq(s, call_args.offset + 1,
                              Min(Len(s), call_args.offset + call_args.limit))

\* the call gives one string predicate, and a page that holds every record
OnePredicate(name) ==
    /\ call_args[name] # <<>>
    /\ \A other \in FilterNames \ {name} : call_args[other] = <<>>
    /\ call_args.offset = 0
    /\ call_args.limit > Cardinality(Stored)

\* C25: a string predicate of query_entries or count_entries selects the
\* records whose column holds the term as a literal substring, letter case
\* ignored, whatever characters the term is made of.
C25_LiteralSubstring ==
    \A name \in StringFilters :
        /\ (call_pc = "query_entries" /\ OnePredicate(name)) =>
              Range(call_ret) =
                  {r \in Stored : Occurs(call_args[name], r[ColumnOf(name)])}
        /\ (call_pc = "count_entries" /\ OnePredicate(name)) =>
              call_ret = Cardinality(
                  {r \in Stored : Occurs(call_args[name], r[ColumnOf(name)])})

\* C26: the search predicate selects the records that hold the term as a
\* substring of raw_json, action, category, actor_id or environment, and that
\* satisfy the other predicates supplied with it.
C26_SearchAnyColumn ==
    (/\ call_pc = "query_entries"
     /\ call_args.search # <<>>
     /\ call_args.offset = 0
     /\ call_args.limit > Cardinality(Stored)) =>
        Range(call_ret) =
            {r \in Stored :
                /\ \E column \in SearchColumns : Occurs(call_args.search, r[column])
                /\ Satisfies(r, [call_args EXCEPT !.search = <<>>])}

\* C27: count_entries returns the number of records query_entries returns
\* for the same start, end, category, action, actor and outcome with offset
\* 0 and a limit above the size of the store.
C27_CountMatchesQuery ==
    (/\ call_pc = "query_entries"
     /\ call_args.source = <<>> /\ call_args.ip = <<>> /\ call_args.search = <<>>
     /\ call_args.offset = 0
     /\ call_args.limit > Cardinality(Stored)) =>
        count_entries_where(db, call_args) = Len(call_ret)

\* a query on outcome and a bound has returned one of two stored records
C27_Witness ==
    /\ call_pc = "query_entries"
    /\ call_args.outcome # <<>>
    /\ call_args.start # <<>>
    /\ call_args.offset = 0
    /\ call_args.limit > Cardinality(Stored)
    /\ Cardinality(Stored) = 2
    /\ Len(call_ret) = 1
    /\ count_entries_where(db, call_args) = 1

-----------------------------------------------------------------------------
(* SpecFields: _safe_get and _extract_fields applied to decoded JSON values.
   A decoded value carries its Python type, the text str() gives for a
   scalar, and its items when it is a dict. *)

Value(type, text, items) == [type |-> type, text |-> text, items |-> items]

None == Value("NoneType", "None", <<>>)

PyStr(text) == Value("str", text, <<>>)

PyInt(text) == Value("int", text, <<>>)

PyBool(text) == Value("bool", text, <<>>)

PyList(text) == Value("list", text, <<>>)

Dict(items) == Value("dict", "", items)

EmptyDict == Dict(<<>>)

\* the values a key of a record may hold besides a dict of the documented
\* shape
Leaves ==
    {None, PyStr("x"), PyStr(""), PyInt("5"), PyInt("0"), PyBool("False"),
     PyList("[1]"), EmptyDict}

RECURSIVE repr(_)
\* repr(value); the keys of a dict are written in the order CHOOSE takes them
repr(value) ==
    IF value.type = "str" THEN "'" \o value.text \o "'"
    ELSE IF value.type # "dict" THEN value.text
    ELSE IF DOMAIN value.items = {} THEN "{}"
    ELSE LET key == CHOOSE k \in DOMAIN value.items : TRUE
             rest == [k \in DOMAIN value.items \ {key} |-> value.items[k]]
             tail == repr(Dict(rest))
         IN "{'" \o key \o "': " \o repr(value.items[key])
                \o (IF tail = "{}" THEN "}"
                    ELSE ", " \o SubSeq(tail, 2, Len(tail)))

\* str(value)
str(value) == IF value.type = "str" THEN value.text ELSE repr(value)

\* bool(value)
truthy(value) ==
    IF value.type = "dict" THEN DOMAIN value.items # {}
    ELSE value \notin {None, PyStr(""), PyInt("0"), PyBool("False"), PyList("[]")}

isinstance_anything(value) == TRUE

\* isinstance(value, dict)
isinstance_dict(value) == value.type = "dict"

\* value.get(key, default): only a dict has get
get(value, key, default) ==
    IF value.type # "dict" THEN [raised |-> TRUE, value |-> None]
    ELSE IF key \in DOMAIN value.items
    THEN [raised |-> FALSE, value |-> value.items[key]]
    ELSE [raised |-> FALSE, value |-> default]

RECURSIVE safe_get_loop(_, _, _)
\* the loop of _safe_get from `current` over the keys left
safe_get_loop(current, keys, default) ==
    IF keys = <<>>
    THEN [raised |-> FALSE,
          text |-> IF current # None THEN str(current) ELSE default]
    ELSE IF ~isinstance_dict(current)
    THEN [raised |-> FALSE, text |-> default]
    ELSE LET got == get(current, Head(keys), None)
         IN IF got.raised THEN [raised |-> TRUE, text |-> ""]
            ELSE IF got.value = None THEN [raised |-> FALSE, text |-> default]
            ELSE safe_get_loop(got.value, Tail(keys), default)

\* _safe_get(d, *keys, default="")
safe_get(d, keys) == safe_get_loop(d, keys, "")

\* a or b on two calls of _safe_get
OrElse(a, b) == IF a.raised \/ a.text # "" THEN a ELSE b

\* the columns _extract_fields reads through _safe_get, with their key paths
\* below "object"
FieldPaths ==
    [outcome_type |-> <<<<"outcome", "type">>>>,
     actor_type |-> <<<<"actor", "type">>>>,
     actor_id |-> <<<<"actor", "identifier", "value">>>>,
     environment |-> <<<<"context", "environment">>>>,
     client_ip |-> <<<<"context", "clientIp">>, <<"context", "client_ip">>>>,
     host |-> <<<<"context", "host">>>>,
     session_id |-> <<<<"context", "sessionId">>, <<"context", "session_id">>>>,
     object_type |-> <<<<"type">>>>]

DependentFields == DOMAIN FieldPaths

\* the columns _extract_fields reads from the record itself
TopFields == {"date", "timestamp", "category", "action", "source"}

\* _extract_fields(raw)
extract_fields(raw) ==
    LET top == get(raw, "object", EmptyDict)
        obj == IF truthy(top.value) THEN top.value ELSE EmptyDict
        via == [name \in DependentFields |->
                   LET paths == FieldPaths[name]
                   IN IF Len(paths) = 1 THEN safe_get(obj, paths[1])
                      ELSE OrElse(safe_get(obj, paths[1]), safe_get(obj, paths[2]))]
        event == get(raw, "eventType", get(raw, "event_type", PyStr("")).value)
    IN IF top.raised \/ \E name \in DependentFields : via[name].raised
       THEN [raised |-> TRUE, top |-> <<>>, fields |-> <<>>]
       ELSE [raised |-> FALSE,
             top |-> [name \in TopFields \cup {"event_type"} |->
                         IF name = "event_type" THEN event.value
                         ELSE get(raw, name, PyStr("")).value],
             fields |-> [name \in DependentFields |-> via[name].text]]

RECURSIVE Nest(_, _)
\* {k1: {k2: ... value}}
Nest(keys, value) ==
    IF keys = <<>> THEN value
    ELSE Dict([k \in {Head(keys)} |-> Nest(Tail(keys), value)])

KeyPaths == UNION {Range(FieldPaths[name]) : name \in DependentFields}

\* the documented shape cut at every depth, ending in every leaf
Shapes ==
    UNION {{Nest(SubSeq(path, 1, n), leaf) : n \in 0..Len(path), leaf \in Leaves} :
              path \in KeyPaths}

\* a context holding both spellings of a key
BothSpellings ==
    {Dict([k \in {"context"} |->
              Dict([s \in {"clientIp", "client_ip"} |->
                      IF s = "clientIp" THEN pair[1] ELSE pair[2]])]) :
        pair \in {None, PyStr(""), PyStr("x")} \X {None, PyStr("y")}}

\* the records: with no "object", and with every shape as "object"
Records ==
    {EmptyDict,
     Dict([k \in {"category", "eventType"} |-> PyStr("x")]),
     Dict([k \in {"event_type"} |-> PyStr("x")])}
        \cup {Dict([k \in {"object"} |-> shape]) : shape \in Shapes \cup BothSpellings}

CallSafeGet ==
    /\ call_pc = "idle"
    /\ \E d \in Shapes, keys \in KeyPaths :
           Called("_safe_get", <<d, keys>>, safe_get(d, keys))

CallExtractFields ==
    /\ call_pc = "idle"
    /\ \E raw \in Records :
           Called("_extract_fields", <<raw>>, extract_fields(raw))

InitFields ==
    PlannerIdle /\ StoreInit /\ FetchIdle /\ NetIdle /\ AuxIdle

NextFields ==
    \/ (CallSafeGet /\ UNCHANGED callFrame)
    \/ (CallExtractFields /\ UNCHANGED callFrame)
    \/ (CallDone /\ UNCHANGED callFrame)

SpecFields == InitFields /\ [][NextFields]_vars

RECURSIVE At(_, _)
\* the value at the end of the key path, if the path leads through mappings
\* that hold its keys
At(d, keys) ==
    IF keys = <<>> THEN {d}
    ELSE IF d.type = "dict" /\ Head(keys) \in DOMAIN d.items
    THEN At(d.items[Head(keys)], Tail(keys))
    ELSE {}

\* a step of the path is missing, null, or taken from a value that is not a
\* mapping
PathBroken(d, keys) ==
    \E n \in 1..Len(keys) : At(d, SubSeq(keys, 1, n)) \in {{}, {None}}

\* C28: _safe_get returns "" when a step of the key path is missing, null or
\* taken from a value that is not a mapping, and str() of the leaf otherwise;
\* _extract_fields raises for no record and gives "" for each of the eight
\* columns read below "object" when "object" or the part the column is read
\* from is absent or null.
C28_SafeGetDefaults ==
    /\ call_pc = "_safe_get" =>
          /\ ~call_ret.raised
          /\ call_ret.text =
                IF PathBroken(call_args[1], call_args[2]) THEN ""
                ELSE str(CHOOSE leaf \in At(call_args[1], call_args[2]) : TRUE)
    /\ call_pc = "_extract_fields" =>
          /\ ~call_ret.raised
          /\ \A name \in DependentFields :
                (\A path \in Range(FieldPaths[name]) :
                    PathBroken(call_args[1], <<"object">> \o path))
                    => call_ret.fields[name] = ""

\* _safe_get has met a string where the path needs a mapping
C28_Witness ==
    /\ call_pc = "_safe_get"
    /\ call_args[1] = Nest(<<"actor">>, PyStr("x"))
    /\ call_args[2] = <<"actor", "identifier", "value">>
    /\ call_ret.text = ""

-----------------------------------------------------------------------------
(* SpecRetry: fetch_audit_logs run again over one range, on the file the
   earlier run left; db0 is the file as the run found it *)

\* fetch_audit_logs(settings, cache, start, end) over the range of SpecResume
RetryStartRun ==
    /\ StartRun
    /\ f_windows' = generate_windows(ResumeRange[1], ResumeRange[2])
    /\ db0' = db

\* what a step of the loop leaves alone
loopFrame == <<gwVars, netVars, upstream, auxVars>>

NextRetry ==
    \/ (RetryStartRun
          /\ UNCHANGED <<gwVars, netVars, upstream, callbacks, call_pc,
                         call_args, call_ret>>)
    \/ (SkipWindow /\ UNCHANGED loopFrame)
    \/ (RequestLocations /\ UNCHANGED loopFrame)
    \/ (LocationsFailed /\ UNCHANGED loopFrame)
    \/ (LocationsEmpty /\ UNCHANGED loopFrame)
    \/ (LocationsListed /\ UNCHANGED loopFrame)
    \/ (DownloadFailed /\ UNCHANGED loopFrame)
    \/ (DownloadedAndStored /\ UNCHANGED loopFrame)
    \/ (DownloadedAndRaised /\ UNCHANGED loopFrame)
    \/ (Return /\ UNCHANGED loopFrame)

SpecRetry == Init /\ [][NextRetry]_vars

\* the windows the loop has dealt with
Processed == {i \in DOMAIN outcome : outcome[i] # "pending"}

\* C38: a window whose location request or download failed is not in the
\* ledger; a run skips exactly the windows that were in the ledger when it
\* started and sends a location request for every other window it reaches;
\* a later run in which no location request and no download fails leaves
\* every window of the range in the ledger.
C38_FailedWindowsRetried ==
    /\ \A i \in FailedWindows : f_windows[i] \notin DOMAIN db.ledger
    /\ \A i \in Processed :
          /\ outcome[i] = "skipped" <=> f_windows[i] \in DOMAIN db0.ledger
          /\ outcome[i] # "skipped" <=> i \in requests.locations
    /\ (runs > 1 /\ f_pc \in {"done", "raised"} /\ FailedWindows = {}) =>
          Range(f_windows) \subseteq DOMAIN db.ledger

-----------------------------------------------------------------------------
(* SpecRerun: fetch_audit_logs run again on the event loop, each run with
   its own TokenManager, on the file the earlier run left *)

RerunStartRunEager ==
    /\ StartRun
    /\ Len(f_windows') = 2
    /\ tm' = fetch_token(NoToken, now, [kind |-> "ok", expires_in |-> 3600])
    /\ loc' = NoCall
    /\ tasks' = <<>>
    /\ db0' = db
    /\ UNCHANGED now

\* fetch_audit_logs over a range of two windows; asyncio.run of the earlier
\* run has ended its tasks
RerunStartRun ==
    /\ StartRun
    /\ Len(f_windows') = 2
    /\ tm' = NoToken
    /\ loc' = NoCall
    /\ tasks' = <<>>
    /\ db0' = db
    /\ UNCHANGED now

\* what a step of a run on the event loop leaves alone
netFrame == <<gwVars, upstream, auxVars>>

NextRerun ==
    \/ (RerunStartRun
          /\ UNCHANGED <<gwVars, upstream, callbacks, call_pc, call_args,
                         call_ret>>)
    \/ (SkipWindow /\ UNCHANGED <<netVars, netFrame>>)
    \/ (NetRequestLocations /\ UNCHANGED netFrame)
    \/ (LocTokenGranted /\ UNCHANGED netFrame)
    \/ (LocTokenRefused /\ UNCHANGED netFrame)
    \/ (LocGetRetried /\ UNCHANGED netFrame)
    \/ (LocGetFailed /\ UNCHANGED netFrame)
    \/ (LocGetEmpty /\ UNCHANGED netFrame)
    \/ (LocGetListed /\ UNCHANGED netFrame)
    \/ (TaskAcquire /\ UNCHANGED netFrame)
    \/ (TaskTokenResponse /\ UNCHANGED netFrame)
    \/ (TaskGetResponse /\ UNCHANGED netFrame)
    \/ (NetDownloadFailed /\ UNCHANGED netFrame)
    \/ (NetDownloadedAndStored /\ UNCHANGED netFrame)
    \/ (NetReturn /\ UNCHANGED netFrame)
    \/ (Tick /\ UNCHANGED netFrame)

SpecRerun == InitNet /\ [][NextRerun]_vars

\* C37: a run over a range whose windows are all in the ledger sends no
\* request (no token request, no location request, no download), leaves
\* the records and the ledger as they were, and returns with
\* skipped_windows = completed_windows = total_windows, new_entries = 0 and
\* no error.
C37_CachedRangeNoRequests ==
    (f_pc # "idle" /\ Range(f_windows) \subseteq DOMAIN db0.ledger) =>
        /\ requests = NoRequests
        /\ tm = NoToken
        /\ loc = NoCall
        /\ tasks = <<>>
        /\ db = db0
        /\ f_pc = "done" =>
              /\ progress.total_windows = Len(f_windows)
              /\ progress.skipped_windows = progress.total_windows
              /\ progress.completed_windows = progress.total_windows
              /\ progress.new_entries = 0
              /\ progress.errors = <<>>

\* a second run has returned from a range whose two windows an earlier run
\* had stored, one of them with its files
C37_Witness ==
    /\ runs = 2
    /\ f_pc = "done"
    /\ Range(f_windows) \subseteq DOMAIN db0.ledger
    /\ \E w \in Range(f_windows) : db0.ledger[w].file_count > 0
    /\ progress.skipped_windows = 2

-----------------------------------------------------------------------------
(* SpecExport: files parsed, stored and exported again: parser.py, cache.py,
   export.py *)

to_json_rows(entries) ==
    [i \in DOMAIN entries |-> <<"row", entries[i].raw_json>>]

\* _to_json(entries), before json.dumps lays the list out: the value decoded
\* from the raw_json of each row, or the row with its columns when raw_json
\* does not decode
to_json(entries) ==
    [i \in DOMAIN entries |->
        IF json_loads(entries[i].raw_json).raised
        THEN <<"row", entries[i].raw_json>>
        ELSE json_loads(entries[i].raw_json).value]

\* the files handed to the parser
ExportFiles ==
    FileSamples \cup {GzipOf(<<"{\"a\": 1}">>), RawText(PrettyArray),
                      GzipOf(<<"{\"object\":5}", "{\"a\":1}">>)}

\* the rows of log_entries in the order a query gives them
RowLists(view) ==
    {s \in [1..Cardinality(DOMAIN view.records) -> Range(view.records)] :
        \A i, j \in DOMAIN s : i # j => s[i] # s[j]}

\* parse_log_file(data), then store_window of its entries
ParseAndStore ==
    /\ call_pc = "idle"
    /\ calls < MaxCalls
    /\ \E data \in ExportFiles, window \in StoreWindows :
          /\ parse_log_file(data).raised = "none"
          /\ LET stored == store_window(tx, window,
                                        parse_log_file(data).entries, 1)
             IN  /\ ~stored.raised
                 /\ db' = stored.view
                 /\ tx' = stored.view
          /\ Called("store_window", <<data, window>>, <<>>)
    /\ calls' = calls + 1
    /\ UNCHANGED <<in_tx, st_pc, sw>>

\* export_entries(rows, format="json") on the rows of the store
ExportJson ==
    /\ call_pc = "store_window"
    /\ \E rows \in RowLists(tx) : Called("_to_json", call_args, to_json(rows))
    /\ UNCHANGED storeVars

\* the command is over
ExportDone ==
    /\ call_pc = "_to_json"
    /\ Called("idle", <<>>, <<>>)
    /\ UNCHANGED storeVars

InitExport == PlannerIdle /\ StoreInit /\ FetchIdle /\ NetIdle /\ AuxIdle

exportFrame == <<gwVars, fetchVars, netVars, upstream, callbacks, db0>>

NextExport ==
    \/ (ParseAndStore /\ UNCHANGED exportFrame)
    \/ (ExportJson /\ UNCHANGED exportFrame)
    \/ (ExportDone /\ UNCHANGED exportFrame)

SpecExport == InitExport /\ [][NextExport]_vars

\* the decoded objects of a file that parse_log_file accepts
AcceptedOf(data) ==
    SelectSeq(DecodedOf(decompress(data).text), model_validate)

\* C31: every decoded object that parse_log_file accepts has, once stored,
\* a row whose JSON export is that object: the same keys and values, and no
\* column of the row beside them.
C31_ExportRoundTrip ==
    call_pc = "_to_json" =>
        /\ \A i \in DOMAIN AcceptedOf(call_args[1]) :
              LET original == AcceptedOf(call_args[1])[i]
                  id == entry_id(json_dumps(original))
              IN  /\ id \in DOMAIN db.records
                  /\ to_json(<<db.records[id]>>) = <<original>>
                  /\ original \in Range(call_ret)
        /\ Len(call_ret) = Cardinality(DOMAIN db.records)

\* a record written with a space after the colon has been stored next to a
\* record of an earlier file and exported
C31_Witness ==
    /\ call_pc = "_to_json"
    /\ call_args[1] = GzipOf(<<"{\"a\": 1}">>)
    /\ Len(call_ret) = 2
    /\ json_loads("{\"a\": 1}").value \in Range(call_ret)

-----------------------------------------------------------------------------
(* SpecGather: one download_log_files call whose downloads all succeed, the
   tasks of asyncio.gather taken in every order: client.py *)

PyBytes(text) == Value("bytes", text, <<>>)

\* the contents of the files behind the urls
FileContents == {PyBytes(""), PyBytes("x"), PyBytes("y")}

\* the url lists, each url given by the content the server holds for it
UrlLists == UNION {[1..n -> FileContents] : n \in 0..MaxFiles}

\* settings.max_concurrent_downloads of the calls SpecGather follows
GatherLimits == 1..(max_concurrent_downloads + 1)

KeepTruthy(results) == SelectSeq(results, LAMBDA r : r \notin {None, PyBytes("")})

\* [r for r in results if r is not None]
KeepNotNone(results) == SelectSeq(results, LAMBDA r : r # None)

\* download_log_files(client, urls, on_progress): up to `await
\* asyncio.gather(*tasks)`; every _download_one is at `async with semaphore`
CallDownloadLogFiles ==
    /\ call_pc = "idle"
    /\ \E urls \in UrlLists, limit \in GatherLimits, on_progress \in BOOLEAN :
          Called("gather",
                 [urls |-> urls, limit |-> limit, on_progress |-> on_progress],
                 [results |-> [i \in DOMAIN urls |-> None],
                  completed |-> 0,
                  at |-> [i \in DOMAIN urls |-> "waiting"],
                  order |-> <<>>,
                  on_progress |-> <<>>])

\* _download_one(index, url) enters the semaphore and awaits
\* download_log_file; waiters enter in the order of the url list
EnterSemaphore(index) ==
    /\ call_pc = "gather"
    /\ index \in DOMAIN call_args.urls
    /\ call_ret.at[index] = "waiting"
    /\ Cardinality({i \in DOMAIN call_ret.at : call_ret.at[i] = "downloading"})
          < call_args.limit
    /\ \A i \in 1..(index - 1) : call_ret.at[i] # "waiting"
    /\ Called("gather", call_args,
              [call_ret EXCEPT !.at[index] = "downloading"])

\* download_log_file returns the content: results[index] = data,
\* completed += 1, on_progress(completed, len(urls)) if it is given
DownloadOneReturns(index) ==
    /\ call_pc = "gather"
    /\ index \in DOMAIN call_args.urls
    /\ call_ret.at[index] = "downloading"
    /\ Called("gather", call_args,
              [call_ret EXCEPT
                  !.at[index] = "done",
                  !.results[index] = call_args.urls[index],
                  !.completed = @ + 1,
                  !.order = Append(@, index),
                  !.on_progress =
                      IF call_args.on_progress
                      THEN Append(@, <<call_ret.completed + 1,
                                       Len(call_args.urls)>>)
                      ELSE @])

\* asyncio.gather returns and download_log_files returns its list
GatherReturns ==
    /\ call_pc = "gather"
    /\ \A i \in DOMAIN call_ret.at : call_ret.at[i] = "done"
    /\ Called("download_log_files", call_args,
              [call_ret EXCEPT !.results = KeepNotNone(@)])

InitGather == PlannerIdle /\ StoreInit /\ FetchIdle /\ NetIdle /\ AuxIdle

NextGather ==
    \/ (CallDownloadLogFiles /\ UNCHANGED callFrame)
    \/ ((\E index \in 1..MaxFiles : EnterSemaphore(index)) /\ UNCHANGED callFrame)
    \/ ((\E index \in 1..MaxFiles : DownloadOneReturns(index)) /\ UNCHANGED callFrame)
    \/ (GatherReturns /\ UNCHANGED callFrame)
    \/ (CallDone /\ UNCHANGED callFrame)

SpecGather == InitGather /\ [][NextGather]_vars

\* C40: when every download succeeds, download_log_files returns the content
\* of each url of its argument, one per url and in the order of the urls,
\* in whatever order the downloads ended and also for empty contents; and
\* on_progress, when given, has been called once per file, with the counts
\* 1, 2, ..., n and the number of urls.
C40_ResultsInInputOrder ==
    call_pc = "download_log_files" =>
        /\ call_ret.results = call_args.urls
        /\ call_args.on_progress =>
              call_ret.on_progress =
                  [k \in 1..Len(call_args.urls) |-> <<k, Len(call_args.urls)>>]

\* two files, the first of them empty, the second downloaded first
C40_Witness ==
    /\ call_pc = "download_log_files"
    /\ call_args.urls = <<PyBytes(""), PyBytes("x")>>
    /\ call_ret.order = <<2, 1>>
    /\ call_ret.on_progress = <<<<1, 2>>, <<2, 2>>>>

=============================================================================
